---- MODULE Spec2Model ----
(***************************************************************************)
(* A model of the subgraph indexing runtime:                               *)
(*   - the Inspector (components/customs/mod.rs; the ProgressCtrl of       *)
(*     components/progress_ctrl/mod.rs is the same code under another      *)
(*     name): the window of recent block pointers and check_block;         *)
(*   - the External Store (database/extern_db/scylladb.rs): the entity     *)
(*     tables keyed by (id, block_ptr_number), the block_ptr table and the *)
(*     operations on them;                                                 *)
(*   - the Store Facade (components/database/mod.rs): the Memory Store in  *)
(*     front of the External Store, and migrate, as one step and in the    *)
(*     steps of batch_insert_entities;                                     *)
(*   - the Agent (components/database/mod.rs): the mutex over the Facade;  *)
(*   - the Pipeline Orchestrator: Inspector, then flush, block by block.   *)
(***************************************************************************)
EXTENDS Integers, Sequences, FiniteSets, TLC

VARIABLES
    recent_block_ptrs,  \* Inspector.recent_block_ptrs: VecDeque<BlockPtr>, front = index 1
    sources,            \* Inspector.sources: Vec<Source>, fixed at construction
    reorg_threshold,    \* Inspector.reorg_threshold: u16, fixed at construction
    result,             \* what the last check_block returned ("None" before the first)
    new_block_ptr,      \* the argument of the last check_block
    replayed,           \* history: the blocks a replay has fed so far, oldest first
    tables,             \* External Store: entity type -> the rows of its table
    block_ptr_table,    \* External Store: the rows of the block_ptr table
    mem,                \* Memory Store: entity type -> the entities, one per id
    store_op,           \* the last store operation: its name and outcome
    flush,              \* batch_insert_entities in steps: where migrate stands,
                        \* its chunks and the insert tasks it spawned
    pipeline,           \* Pipeline Orchestrator: "idle" between blocks, "flush"
                        \* for an admitted block, "stopped" after a fatal result
    agent               \* Agent: who holds the mutex over the Database, and where
                        \* each caller of an entry point stands

inspectorVars == <<recent_block_ptrs, sources, reorg_threshold, result, new_block_ptr, replayed>>

storeVars == <<tables, block_ptr_table, mem, store_op>>

flushVars == <<flush>>

\* what the specifications of one component leave alone
nonInspectorVars == <<storeVars, flushVars, pipeline, agent>>

nonStoreVars == <<inspectorVars, flushVars, pipeline, agent>>

nonFlushVars == <<inspectorVars, pipeline, agent>>

vars == <<inspectorVars, storeVars, flushVars, pipeline, agent>>

----------------------------------------------------------------------------
(* Bounds of the model. *)

\* block numbers range over 0..MaxNumber
MaxNumber == 4
\* reorg_threshold is drawn from 1..MaxThreshold
MaxThreshold == 3
\* a source's startBlock, when set, is drawn from 0..MaxStartBlock
MaxStartBlock == 1
\* the Inspector is built with 0..MaxSources sources
MaxSources == 2

\* the store's operations take block numbers from 1..MaxBlock
MaxBlock == 2
\* the entity tables hold at most MaxRows rows in all
MaxRows == 2

Hashes == {"h1", "h2"}

Min(a, b) == IF a < b THEN a ELSE b

Max(a, b) == IF a < b THEN b ELSE a

SetMin(S) == CHOOSE x \in S : \A y \in S : x <= y

----------------------------------------------------------------------------
(* common::BlockPtr and Source *)

BlockPtr == [number : 0..MaxNumber, hash : Hashes, parent_hash : Hashes]

\* Option<u64> as a set with at most one element: None = {}, Some(n) = {n}
StartBlockOption == {{}} \cup {{n} : n \in 0..MaxStartBlock}

\* a Source, reduced to the one field the Inspector reads
Source == [startBlock : StartBlockOption]

SourceLists == UNION {[1..n -> Source] : n \in 0..MaxSources}

\* BlockPtr::is_parent: self is the parent of child
is_parent(self, child) ==
    /\ self.number + 1 = child.number
    /\ self.hash = child.parent_hash


----------------------------------------------------------------------------
(* Values, schemas and the backend's cell values *)

\* runtime::asc::native_types::store::Value: a record with the variant in k
\* and the content in a field of the variant's own
StringValue(str) == [k |-> "String", str |-> str]
BigIntValue(n) == [k |-> "BigInt", big |-> n]
Int8Value(n) == [k |-> "Int8", int8 |-> n]
BoolValue(b) == [k |-> "Bool", bool |-> b]
ListValue(list) == [k |-> "List", list |-> list]

\* a panic (unwrap on None, unimplemented!()) in place of a value
Panic == [k |-> "Panic"]

\* scylla CqlValue: a record with the variant in t and the content in a
\* field of the variant's own
CqlText(str) == [t |-> "Text", text |-> str]
CqlBigInt(n) == [t |-> "BigInt", bigint |-> n]
CqlBoolean(b) == [t |-> "Boolean", boolean |-> b]
CqlList(list) == [t |-> "List", list |-> list]

\* a column that holds no value (None in a row)
CqlNone == [t |-> "None"]

DigitChars == <<"0", "1", "2", "3", "4", "5", "6", "7", "8", "9">>

\* BigInt::to_string: the decimal digits, with a leading "-" when negative
RECURSIVE digits_to_string(_)
digits_to_string(n) ==
    IF n < 10 THEN DigitChars[n + 1]
    ELSE digits_to_string(n \div 10) \o DigitChars[(n % 10) + 1]

bigint_to_string(n) ==
    IF n < 0 THEN "-" \o digits_to_string(0 - n) ELSE digits_to_string(n)

\* BigInt::from_str: the value of a decimal string
digit_value(c) == (CHOOSE d \in 1..10 : DigitChars[d] = c) - 1

RECURSIVE digits_from_str(_)
digits_from_str(str) ==
    IF Len(str) = 0 THEN 0
    ELSE digits_from_str(SubSeq(str, 1, Len(str) - 1)) * 10
         + digit_value(SubSeq(str, Len(str), Len(str)))

bigint_from_str(str) ==
    IF Len(str) > 0 /\ SubSeq(str, 1, 1) = "-"
    THEN 0 - digits_from_str(SubSeq(str, 2, Len(str)))
    ELSE digits_from_str(str)

\* impl From<Value> for CqlValue
RECURSIVE CqlValueFrom(_)
CqlValueFrom(value) ==
    CASE value.k = "String" -> CqlText(value.str)
      [] value.k = "Int8" -> CqlBigInt(value.int8)
      [] value.k = "Bool" -> CqlBoolean(value.bool)
      [] value.k = "List" ->
            CqlList([i \in DOMAIN value.list |-> CqlValueFrom(value.list[i])])
      [] value.k = "BigInt" -> CqlText(bigint_to_string(value.big))

\* schema_lookup: FieldKind {kind, relation, list_inner_kind}; an absent
\* relation is {}, an absent inner kind is ""
FieldKind(kind, relation, list_inner_kind) ==
    [kind |-> kind, relation |-> relation, list_inner_kind |-> list_inner_kind]

\* the schemas of the model's two entity types
SchemaLookup ==
    [Token |-> [id |-> FieldKind("String", {}, ""),
                supply |-> FieldKind("BigInt", {}, ""),
                users |-> FieldKind("Array", {<<"User", "id">>}, "String")],
     User |-> [id |-> FieldKind("String", {}, "")]]

get_entity_names == DOMAIN SchemaLookup

get_schema(entity_type) == SchemaLookup[entity_type]

get_field(entity_type, field_name) == SchemaLookup[entity_type][field_name]

\* Scylladb::cql_value_to_store_value(field_kind, value): value is CqlNone
\* for None
RECURSIVE cql_value_to_store_value(_, _)
cql_value_to_store_value(field_kind, value) ==
    CASE field_kind.kind = "Int8" ->
            IF value.t = "BigInt" THEN Int8Value(value.bigint) ELSE Panic
      [] field_kind.kind = "String" ->
            IF value.t = "Text" THEN StringValue(value.text) ELSE Panic
      [] field_kind.kind = "Bool" ->
            IF value.t = "Boolean" THEN BoolValue(value.boolean) ELSE Panic
      [] field_kind.kind = "BigInt" ->
            IF value.t = "Text" THEN BigIntValue(bigint_from_str(value.text)) ELSE Panic
      [] field_kind.kind = "Array" ->
            IF value.t = "None" THEN ListValue(<<>>)
            ELSE LET inner_values == IF value.t = "List" THEN value.list ELSE <<>>
                     inner_kind == FieldKind(field_kind.list_inner_kind, {}, "")
                     inner == [i \in DOMAIN inner_values |->
                                  cql_value_to_store_value(inner_kind, inner_values[i])]
                 IN  IF \E i \in DOMAIN inner : inner[i].k = "Panic" THEN Panic
                     ELSE ListValue(inner)
      [] OTHER -> Panic

----------------------------------------------------------------------------
(* RawEntity: a function from field names to Values *)

\* a function with one more (or one replaced) entry
MapPut(f, key, val) ==
    [x \in DOMAIN f \cup {key} |-> IF x = key THEN val ELSE f[x]]

\* a function without the given keys
MapRemove(f, keys) == [x \in DOMAIN f \ keys |-> f[x]]

ReservedFields == {"block_ptr_number", "is_deleted"}


\* the ids and the entities the operations are called with
EntityIds == [Token |-> {"a", "b"}, User |-> {"u"}]

\* the RawEntities of type Token the operations are called with: complete
\* ones, ones whose list is empty or absent, and one that lacks a scalar field
TokenEntities ==
    UNION {
      {[id |-> StringValue(id), supply |-> BigIntValue(0 - 7),
        users |-> ListValue(<<StringValue("u")>>)],
       [id |-> StringValue(id), supply |-> BigIntValue(12), users |-> ListValue(<<>>)],
       [id |-> StringValue(id), supply |-> BigIntValue(12)],
       [id |-> StringValue(id), users |-> ListValue(<<StringValue("u")>>)]} :
      id \in EntityIds.Token}

\* the RawEntities of type User: the id alone, or with a field that the
\* schema does not have
UserEntities ==
    UNION {{[id |-> StringValue(id)],
            [id |-> StringValue(id), nick |-> StringValue("n")]} : id \in EntityIds.User}

RawEntities == [Token |-> TokenEntities, User |-> UserEntities]

\* the block pointers the entity operations are called with (they read the
\* number alone)
EntityBlockPtrs ==
    {[number |-> n, hash |-> "h1", parent_hash |-> "h1"] : n \in 1..MaxBlock}

\* the block pointers save_block_ptr is called with
SavedBlockPtrs == [number : 1..MaxBlock, hash : Hashes, parent_hash : {"h1"}]

----------------------------------------------------------------------------
(* External Store (Scylladb) *)

\* the columns of an entity table: the schema's, block_ptr_number, is_deleted
TableColumns(entity_type) == DOMAIN get_schema(entity_type) \cup ReservedFields

\* Scylladb::generate_insert_query: the row to insert, or a panic (is_deleted
\* absent from data; a non-list schema field absent from data)
generate_insert_query(entity_type, data, block_ptr) ==
    LET schema == get_schema(entity_type)
        default_value(f) == cql_value_to_store_value(schema[f], CqlNone)
        missing == DOMAIN schema \ DOMAIN data
    IN  IF \/ "is_deleted" \notin DOMAIN data
           \/ \E f \in missing : default_value(f).k = "Panic"
        THEN [panic |-> TRUE, row |-> <<>>]
        ELSE [panic |-> FALSE,
              row |-> [c \in TableColumns(entity_type) |->
                         IF c = "block_ptr_number" THEN CqlBigInt(block_ptr.number)
                         ELSE IF c = "is_deleted" THEN CqlValueFrom(data["is_deleted"])
                         ELSE IF c \in DOMAIN data THEN CqlValueFrom(data[c])
                         ELSE CqlValueFrom(default_value(c))]]

SameKey(r, row) ==
    /\ r["id"] = row["id"]
    /\ r["block_ptr_number"] = row["block_ptr_number"]

\* an insert into a table without a primary key
InsertRow_append(table, row) == table \cup {row}

\* an insert that leaves an existing key as it is (INSERT ... IF NOT EXISTS)
InsertRow_if_not_exists(table, row) ==
    IF \E r \in table : SameKey(r, row) THEN table ELSE table \cup {row}

\* INSERT INTO table: PRIMARY KEY (id, block_ptr_number), a write to an
\* existing key replaces the row
InsertRow(table, row) == {r \in table : ~SameKey(r, row)} \cup {row}

RowNumber(r) == r["block_ptr_number"].bigint

RowId(r) == r["id"].text

\* SELECT * WHERE id = ? ORDER BY block_ptr_number DESC LIMIT 1
SelectLatest(table, id) ==
    LET of_id == {r \in table : RowId(r) = id}
    IN  IF of_id = {} THEN <<>>
        ELSE <<CHOOSE r \in of_id : \A o \in of_id : RowNumber(o) <= RowNumber(r)>>

\* SELECT * WHERE block_ptr_number = ? AND id = ? LIMIT 1
SelectAt(table, number, id) ==
    LET at == {r \in table : RowId(r) = id /\ RowNumber(r) = number}
    IN  IF at = {} THEN <<>> ELSE <<CHOOSE r \in at : TRUE>>

\* one row of a query result as a RawEntity
row_to_entity(entity_type, row) ==
    [c \in DOMAIN row |->
        IF c = "is_deleted" THEN BoolValue(row[c].boolean)
        ELSE IF c = "block_ptr_number" THEN Int8Value(row[c].bigint)
        ELSE cql_value_to_store_value(get_field(entity_type, c), row[c])]

\* a result handler that does not filter the deleted rows
handle_entity_query_result_keep_deleted(entity_type, rows, include_deleted) ==
    [i \in DOMAIN rows |-> row_to_entity(entity_type, rows[i])]

\* Scylladb::handle_entity_query_result
handle_entity_query_result(entity_type, rows, include_deleted) ==
    LET entities == [i \in DOMAIN rows |-> row_to_entity(entity_type, rows[i])]
    IN  SelectSeq(entities,
                  LAMBDA e : ~(e["is_deleted"] = BoolValue(TRUE) /\ ~include_deleted))

\* .first().cloned(): an Option, {} for None
First(seq) == IF seq = <<>> THEN {} ELSE {seq[1]}

\* Scylladb::load_entity
load_entity(tbls, block_ptr, entity_type, entity_id) ==
    First(handle_entity_query_result(
              entity_type, SelectAt(tbls[entity_type], block_ptr.number, entity_id), FALSE))

\* a read of the latest row that is not deleted (the filter before the LIMIT)
load_entity_latest_live(tbls, entity_type, entity_id) ==
    LET live == {r \in tbls[entity_type] : r["is_deleted"] = CqlBoolean(FALSE)}
    IN  First(handle_entity_query_result(entity_type, SelectLatest(live, entity_id), FALSE))

\* Scylladb::load_entity_latest
load_entity_latest(tbls, entity_type, entity_id) ==
    First(handle_entity_query_result(
              entity_type, SelectLatest(tbls[entity_type], entity_id), FALSE))

\* the rows of a set, the largest block_ptr_number first (CLUSTERING ORDER
\* BY block_ptr_number DESC)
RECURSIVE EntityRowsDescending(_)
EntityRowsDescending(rows) ==
    IF rows = {} THEN <<>>
    ELSE LET top == CHOOSE r \in rows : \A o \in rows : RowNumber(o) <= RowNumber(r)
         IN  <<top>> \o EntityRowsDescending(rows \ {top})

\* SELECT * WHERE id IN (ids): every row of every listed id, the rows of one
\* id newest first
RECURSIVE SelectIn(_, _)
SelectIn(table, ids) ==
    IF ids = <<>> THEN <<>>
    ELSE LET rest == SelectIn(table, Tail(ids))
         IN  IF \E i \in DOMAIN Tail(ids) : Tail(ids)[i] = Head(ids) THEN rest
             ELSE EntityRowsDescending({r \in table : RowId(r) = Head(ids)}) \o rest

\* a bulk fetch of the latest row of every listed id
load_entities_latest(tbls, entity_type, ids) ==
    LET latest == [i \in DOMAIN ids |-> SelectLatest(tbls[entity_type], ids[i])]
        hit == SelectSeq(latest, LAMBDA rows : rows # <<>>)
    IN  handle_entity_query_result(entity_type, [i \in DOMAIN hit |-> hit[i][1]], FALSE)

\* Scylladb::load_entities
load_entities(tbls, entity_type, ids) ==
    handle_entity_query_result(entity_type, SelectIn(tbls[entity_type], ids), FALSE)

\* Scylladb::insert_entity: the tables afterwards, or a panic
insert_entity(tbls, block_ptr, entity_type, data, is_deleted) ==
    LET data_raw == MapPut(data, "is_deleted", BoolValue(is_deleted))
        q == generate_insert_query(entity_type, data_raw, block_ptr)
    IN  IF "id" \notin DOMAIN data \/ q.panic
        THEN [panic |-> TRUE, tables |-> tbls]
        ELSE [panic |-> FALSE,
              tables |-> [tbls EXCEPT ![entity_type] = InsertRow(@, q.row)]]

\* Scylladb::get_ids_by_block_ptr_filter with BlockPtrFilter::Gte / Lt
get_ids_by_block_ptr_filter(tbls, entity_type, filter, block) ==
    {RowId(r) : r \in {x \in tbls[entity_type] :
                          IF filter = "Gte" THEN RowNumber(x) >= block
                          ELSE RowNumber(x) < block}}

\* DELETE FROM table WHERE id = ? AND block_ptr_number >= / < block
DeleteRows(table, id, filter, block) ==
    {r \in table :
        ~(/\ RowId(r) = id
          /\ IF filter = "Gte" THEN RowNumber(r) >= block ELSE RowNumber(r) < block)}

RECURSIVE DeleteRowsOfIds(_, _, _, _)
DeleteRowsOfIds(table, ids, filter, block) ==
    IF ids = {} THEN table
    ELSE LET id == CHOOSE x \in ids : TRUE
         IN  DeleteRowsOfIds(DeleteRows(table, id, filter, block), ids \ {id}, filter, block)

\* a revert over one entity type only
revert_tables_one_type(tbls, from_block) ==
    LET first_type == CHOOSE t \in get_entity_names : TRUE
    IN  [t \in get_entity_names |->
            IF t = first_type
            THEN DeleteRowsOfIds(tbls[t],
                     get_ids_by_block_ptr_filter(tbls, t, "Gte", from_block),
                     "Gte", from_block)
            ELSE tbls[t]]

\* a revert of the rows above from_block only
revert_tables_gt(tbls, from_block) ==
    [t \in get_entity_names |->
        DeleteRowsOfIds(tbls[t],
            get_ids_by_block_ptr_filter(tbls, t, "Gte", from_block + 1),
            "Gte", from_block + 1)]

\* Scylladb::revert_from_block: the tables after the batch of deletes
revert_tables(tbls, from_block) ==
    [t \in get_entity_names |->
        DeleteRowsOfIds(tbls[t],
            get_ids_by_block_ptr_filter(tbls, t, "Gte", from_block),
            "Gte", from_block)]

\* INSERT INTO block_ptr: PRIMARY KEY (sgd, block_number), one sgd
SaveBlockPtrRow(ptr_table, block_ptr) ==
    {r \in ptr_table : r.block_number # block_ptr.number}
    \cup {[block_number |-> block_ptr.number,
           block_hash |-> block_ptr.hash,
           parent_hash |-> block_ptr.parent_hash]}

\* a block_ptr row read back as a BlockPtr (SELECT JSON ... as number, hash)
row_to_block_ptr(r) ==
    [number |-> r.block_number, hash |-> r.block_hash, parent_hash |-> r.parent_hash]

\* Scylladb::get_earliest_block_ptr: an Option
get_earliest_block_ptr(ptr_table) ==
    IF ptr_table = {} THEN {}
    ELSE LET block_number == SetMin({r.block_number : r \in ptr_table})
         IN  {row_to_block_ptr(r) : r \in {x \in ptr_table : x.block_number = block_number}}

\* the rows of a table ordered by block_number DESC
RECURSIVE RowsDescending(_)
RowsDescending(ptr_table) ==
    IF ptr_table = {} THEN <<>>
    ELSE LET top == CHOOSE r \in ptr_table :
                        \A o \in ptr_table : o.block_number <= r.block_number
         IN  <<top>> \o RowsDescending(ptr_table \ {top})

Reverse(seq) == [i \in 1..Len(seq) |-> seq[Len(seq) + 1 - i]]

\* a load_recent_block_ptrs without the .rev(): newest first
load_recent_block_ptrs_no_rev(ptr_table, number_of_blocks) ==
    LET all == RowsDescending(ptr_table)
        rows == SubSeq(all, 1, Min(number_of_blocks, Len(all)))
    IN  [i \in DOMAIN rows |-> row_to_block_ptr(rows[i])]

\* Scylladb::load_recent_block_ptrs
load_recent_block_ptrs(ptr_table, number_of_blocks) ==
    LET all == RowsDescending(ptr_table)
        rows == SubSeq(all, 1, Min(number_of_blocks, Len(all)))
    IN  Reverse([i \in DOMAIN rows |-> row_to_block_ptr(rows[i])])

----------------------------------------------------------------------------
(* Inspector *)

\* the largest startBlock in place of the smallest
min_start_block_max(srcs) ==
    LET starts == UNION {srcs[i].startBlock : i \in DOMAIN srcs}
    IN  IF starts = {} THEN {} ELSE {CHOOSE x \in starts : \A y \in starts : y <= x}

\* sources.iter().filter_map(|s| s.startBlock).min()  as an Option
min_start_block(srcs) ==
    LET starts == UNION {srcs[i].startBlock : i \in DOMAIN srcs}
    IN  IF starts = {} THEN {} ELSE {SetMin(starts)}

get_expected_block_number(ptrs, srcs) ==
    LET m == min_start_block(srcs)
        unwrap_or_0 == IF m = {} THEN 0 ELSE CHOOSE n \in m : TRUE
        next_number == IF ptrs = <<>> THEN 0 ELSE Head(ptrs).number + 1
    IN  Max(unwrap_or_0, next_number)

\* push_front
push_front(ptrs, b) == <<b>> \o ptrs

\* pop_back
pop_back(ptrs) == SubSeq(ptrs, 1, Len(ptrs) - 1)

\* the OkToProceed branch on a non-empty window: push_front, then pop_back
\* when the window has grown past reorg_threshold
push_trim_no_pop(ptrs, thr, new) == push_front(ptrs, new)

push_trim_early(ptrs, thr, new) ==
    LET pushed == push_front(ptrs, new)
    IN  IF Len(pushed) >= thr THEN pop_back(pushed) ELSE pushed

push_trim(ptrs, thr, new) ==
    LET pushed == push_front(ptrs, new)
    IN  IF Len(pushed) > thr THEN pop_back(pushed) ELSE pushed

\* retain(|b| b.number < new.number), then push_front(new)
fork_retain_lte(ptrs, new) ==
    push_front(SelectSeq(ptrs, LAMBDA b : b.number <= new.number), new)

fork_retain_pop_front(ptrs, new) == push_front(Tail(ptrs), new)

fork_retain(ptrs, new) ==
    push_front(SelectSeq(ptrs, LAMBDA b : b.number < new.number), new)

\* the loop over recent_block_ptrs.iter(), front to back, from index i
RECURSIVE scan_from(_, _, _)
scan_from(ptrs, new, i) ==
    IF i > Len(ptrs)
    THEN [result |-> "MaybeReorg", ptrs |-> ptrs]
    ELSE IF ptrs[i] = new
    THEN [result |-> "BlockAlreadyProcessed", ptrs |-> ptrs]
    ELSE IF is_parent(ptrs[i], new)
    THEN [result |-> "ForkBlock", ptrs |-> fork_retain(ptrs, new)]
    ELSE scan_from(ptrs, new, i + 1)

scan_window_skip_front(ptrs, new) == scan_from(ptrs, new, 2)

\* a scan that keeps the block it could not place
scan_window_push_maybe_reorg(ptrs, new) ==
    LET r == scan_from(ptrs, new, 1)
    IN  IF r.result = "MaybeReorg"
        THEN [result |-> "MaybeReorg", ptrs |-> push_front(ptrs, new)]
        ELSE r

\* a scan that stops after the front
scan_window_front_only(ptrs, new) ==
    IF ptrs[1] = new
    THEN [result |-> "BlockAlreadyProcessed", ptrs |-> ptrs]
    ELSE IF is_parent(ptrs[1], new)
    THEN [result |-> "ForkBlock", ptrs |-> fork_retain(ptrs, new)]
    ELSE [result |-> "MaybeReorg", ptrs |-> ptrs]

\* a scan that looks for a parent in the whole window before it looks for
\* the block itself
scan_window_parent_first(ptrs, new) ==
    IF \E i \in DOMAIN ptrs : is_parent(ptrs[i], new)
    THEN [result |-> "ForkBlock", ptrs |-> fork_retain(ptrs, new)]
    ELSE IF \E i \in DOMAIN ptrs : ptrs[i] = new
    THEN [result |-> "BlockAlreadyProcessed", ptrs |-> ptrs]
    ELSE [result |-> "MaybeReorg", ptrs |-> ptrs]

\* a scan that takes for the parent any entry whose hash is the parent_hash
scan_window_hash_only(ptrs, new) ==
    IF \E i \in DOMAIN ptrs : ptrs[i] = new
    THEN [result |-> "BlockAlreadyProcessed", ptrs |-> ptrs]
    ELSE IF \E i \in DOMAIN ptrs : ptrs[i].hash = new.parent_hash
    THEN [result |-> "ForkBlock", ptrs |-> fork_retain(ptrs, new)]
    ELSE [result |-> "MaybeReorg", ptrs |-> ptrs]

scan_window(ptrs, new) == scan_from(ptrs, new, 1)

\* a check_block without the rule for numbers beyond front + 1
check_block_no_gap_rule(ptrs, srcs, thr, new) ==
    IF ptrs = <<>>
    THEN IF new.number = get_expected_block_number(ptrs, srcs)
         THEN [result |-> "OkToProceed", ptrs |-> push_front(ptrs, new)]
         ELSE [result |-> "UnexpectedBlock", ptrs |-> ptrs]
    ELSE IF is_parent(Head(ptrs), new)
    THEN [result |-> "OkToProceed", ptrs |-> push_trim(ptrs, thr, new)]
    ELSE IF new.number < ptrs[Len(ptrs)].number
    THEN [result |-> "UnrecognizedBlock", ptrs |-> ptrs]
    ELSE scan_window(ptrs, new)

\* a check_block that does not recognise the number of the back either
check_block_back_excluded(ptrs, srcs, thr, new) ==
    IF ptrs = <<>>
    THEN IF new.number = get_expected_block_number(ptrs, srcs)
         THEN [result |-> "OkToProceed", ptrs |-> push_front(ptrs, new)]
         ELSE [result |-> "UnexpectedBlock", ptrs |-> ptrs]
    ELSE IF is_parent(Head(ptrs), new)
    THEN [result |-> "OkToProceed", ptrs |-> push_trim(ptrs, thr, new)]
    ELSE IF new.number > Head(ptrs).number + 1
    THEN [result |-> "UnexpectedBlock", ptrs |-> ptrs]
    ELSE IF new.number <= ptrs[Len(ptrs)].number
    THEN [result |-> "UnrecognizedBlock", ptrs |-> ptrs]
    ELSE scan_window(ptrs, new)

\* Inspector::check_block as a function of the Inspector's fields and the
\* argument: the value returned and the window afterwards
check_block(ptrs, srcs, thr, new) ==
    IF ptrs = <<>>
    THEN IF new.number = get_expected_block_number(ptrs, srcs)
         THEN [result |-> "OkToProceed", ptrs |-> push_front(ptrs, new)]
         ELSE [result |-> "UnexpectedBlock", ptrs |-> ptrs]
    ELSE LET last_processed == Head(ptrs)
         IN  IF is_parent(last_processed, new)
             THEN [result |-> "OkToProceed", ptrs |-> push_trim(ptrs, thr, new)]
             ELSE IF new.number > last_processed.number + 1
             THEN [result |-> "UnexpectedBlock", ptrs |-> ptrs]
             ELSE IF new.number < ptrs[Len(ptrs)].number
             THEN [result |-> "UnrecognizedBlock", ptrs |-> ptrs]
             ELSE scan_window(ptrs, new)

\* Inspector::new(vec![], sources, reorg_threshold)
InitInspector ==
    /\ recent_block_ptrs = <<>>
    /\ sources \in SourceLists
    /\ reorg_threshold \in 1..MaxThreshold
    /\ result = "None"
    /\ new_block_ptr = [number |-> 0, hash |-> "h1", parent_hash |-> "h1"]
    /\ replayed = <<>>

\* the effect of one call of check_block on the Inspector
DoCheckBlock(new) ==
    LET r == check_block(recent_block_ptrs, sources, reorg_threshold, new)
    IN  /\ recent_block_ptrs' = r.ptrs
        /\ result' = r.result
        /\ new_block_ptr' = new
        /\ UNCHANGED <<sources, reorg_threshold>>

\* check_block called with any block
CheckBlock ==
    \E new \in BlockPtr :
        /\ DoCheckBlock(new)
        /\ UNCHANGED replayed

\* check_block called with the next block of a parent-linked chain that starts
\* at the expected start
ReplayBlock ==
    \E h \in Hashes, p \in Hashes :
        LET n == get_expected_block_number(recent_block_ptrs, sources)
            new == [number |-> n, hash |-> h,
                    parent_hash |-> IF recent_block_ptrs = <<>> THEN p
                                    ELSE Head(recent_block_ptrs).hash]
        IN  /\ n <= MaxNumber
            /\ (recent_block_ptrs # <<>> => p = "h1")
            /\ DoCheckBlock(new)
            /\ replayed' = Append(replayed, new)


----------------------------------------------------------------------------
(* The External Store's operations as actions *)

NoTables == [t \in get_entity_names |-> {}]

RowCount(tbls) == Cardinality(UNION {{<<t, r>> : r \in tbls[t]} : t \in DOMAIN tbls})

\* the record of the last operation: its name, how it ended ("Ok", "Err",
\* "Panic") and whether it changed the store
StoreOp(op, ret, changed) == [op |-> op, ret |-> ret, changed |-> changed]

InitStore ==
    /\ tables = NoTables
    /\ block_ptr_table = {}
    /\ mem = NoTables
    /\ store_op = StoreOp("None", "Ok", FALSE)

\* an operation whose query or batch the backend fails: an error, nothing written
BackendError(op) ==
    /\ store_op' = StoreOp(op, "Err", FALSE)
    /\ UNCHANGED <<tables, block_ptr_table, mem>>

\* Scylladb::create_entity(block_ptr, entity_type, data)
create_entity(tbls, block_ptr, entity_type, data) ==
    insert_entity(tbls, block_ptr, entity_type, data, FALSE)

CreateEntityOf(entity_types) ==
    \/ \E block_ptr \in EntityBlockPtrs, entity_type \in entity_types :
         \E data \in RawEntities[entity_type] :
           LET r == create_entity(tables, block_ptr, entity_type, data)
           IN  /\ tables' = r.tables
               /\ RowCount(tables') <= MaxRows
               /\ store_op' = StoreOp("create_entity",
                                      IF r.panic THEN "Panic" ELSE "Ok",
                                      tables' # tables)
               /\ UNCHANGED <<block_ptr_table, mem>>
    \/ BackendError("create_entity")

CreateEntity == CreateEntityOf(get_entity_names)

\* a soft delete that writes a row of the id and the flag alone
soft_delete_entity_id_only(tbls, block_ptr, entity_type, entity_id) ==
    LET entity == load_entity_latest(tbls, entity_type, entity_id)
    IN  IF entity = {} THEN [panic |-> FALSE, tables |-> tbls]
        ELSE insert_entity(tbls, block_ptr, entity_type,
                           [id |-> StringValue(entity_id)], TRUE)

\* Scylladb::soft_delete_entity(block_ptr, entity_type, entity_id)
soft_delete_entity(tbls, block_ptr, entity_type, entity_id) ==
    LET entity == load_entity_latest(tbls, entity_type, entity_id)
    IN  IF entity = {} THEN [panic |-> FALSE, tables |-> tbls]
        ELSE LET e == CHOOSE x \in entity : TRUE
             IN  insert_entity(tbls, block_ptr, entity_type,
                               MapRemove(e, ReservedFields), TRUE)

SoftDeleteEntity ==
    \/ \E block_ptr \in EntityBlockPtrs, entity_type \in get_entity_names :
         \E entity_id \in EntityIds[entity_type] :
           LET r == soft_delete_entity(tables, block_ptr, entity_type, entity_id)
           IN  /\ tables' = r.tables
               /\ RowCount(tables') <= MaxRows
               /\ store_op' = StoreOp("soft_delete_entity",
                                      IF r.panic THEN "Panic" ELSE "Ok",
                                      tables' # tables)
               /\ UNCHANGED <<block_ptr_table, mem>>
    \/ BackendError("soft_delete_entity")

\* Scylladb::revert_from_block(from_block): one batch of deletes over every
\* entity table; no statement of it names the block_ptr table
revert_from_block(tbls, ptr_table, from_block) ==
    [tables |-> revert_tables(tbls, from_block), block_ptr_table |-> ptr_table]

RevertFromBlock ==
    \/ \E from_block \in 0..(MaxBlock + 1) :
         LET r == revert_from_block(tables, block_ptr_table, from_block)
         IN  /\ tables' = r.tables
             /\ block_ptr_table' = r.block_ptr_table
             /\ store_op' = StoreOp("revert_from_block", "Ok", tables' # tables)
             /\ UNCHANGED mem
    \/ BackendError("revert_from_block")

\* Scylladb::save_block_ptr(block_ptr)
save_block_ptr(ptr_table, block_ptr) == SaveBlockPtrRow(ptr_table, block_ptr)

SaveBlockPtrOf(block_ptrs) ==
    \/ \E block_ptr \in block_ptrs :
         /\ block_ptr_table' = save_block_ptr(block_ptr_table, block_ptr)
         /\ store_op' = StoreOp("save_block_ptr", "Ok",
                                block_ptr_table' # block_ptr_table)
         /\ UNCHANGED <<tables, mem>>
    \/ BackendError("save_block_ptr")

SaveBlockPtr == SaveBlockPtrOf(SavedBlockPtrs)

\* a remove_snapshots that deletes the old rows of every id of the listed types
remove_snapshots_all_ids(tbls, entities, to_block) ==
    [t \in get_entity_names |->
        IF \E e \in entities : e[1] = t
        THEN {r \in tbls[t] : ~(RowNumber(r) < to_block)}
        ELSE tbls[t]]

\* Scylladb::remove_snapshots(entities, to_block): the rows of the listed
\* entities below to_block are deleted
remove_snapshots(tbls, entities, to_block) ==
    [t \in get_entity_names |->
        DeleteRowsOfIds(tbls[t], {e[2] : e \in {x \in entities : x[1] = t}},
                        "Lt", to_block)]

\* the entities remove_snapshots is called with
SnapshotEntities == {{<<"Token", "a">>}, {<<"Token", "a">>, <<"User", "u">>}}

RemoveSnapshots ==
    \/ \E entities \in SnapshotEntities, to_block \in 0..(MaxBlock + 1) :
         /\ tables' = remove_snapshots(tables, entities, to_block)
         /\ store_op' = StoreOp("remove_snapshots", "Ok", tables' # tables)
         /\ UNCHANGED <<block_ptr_table, mem>>
    \/ BackendError("remove_snapshots")

\* a clean_data_history that leaves the block_ptr table as it is
clean_data_history_rows_only(tbls, ptr_table, to_block) ==
    [tables |-> [t \in get_entity_names |->
                    DeleteRowsOfIds(tbls[t],
                        get_ids_by_block_ptr_filter(tbls, t, "Lt", to_block),
                        "Lt", to_block)],
     block_ptr_table |-> ptr_table]

\* Scylladb::clean_data_history(to_block): one batch deletes, for every id with
\* a row below to_block, its rows below to_block, and the block_ptr rows below
\* to_block
clean_data_history(tbls, ptr_table, to_block) ==
    [tables |-> [t \in get_entity_names |->
                    DeleteRowsOfIds(tbls[t],
                        get_ids_by_block_ptr_filter(tbls, t, "Lt", to_block),
                        "Lt", to_block)],
     block_ptr_table |-> {r \in ptr_table : ~(r.block_number < to_block)}]

CleanDataHistory ==
    \/ \E to_block \in 0..(MaxBlock + 1) :
         LET r == clean_data_history(tables, block_ptr_table, to_block)
         IN  /\ tables' = r.tables
             /\ block_ptr_table' = r.block_ptr_table
             /\ store_op' = StoreOp("clean_data_history", "Ok",
                                    tables' # tables \/ block_ptr_table' # block_ptr_table)
             /\ UNCHANGED mem
    \/ BackendError("clean_data_history")

----------------------------------------------------------------------------
(* Memory Store (MemoryDb) and Store Facade (Database) *)

\* the entry of an id in the Memory Store: an Option
MemEntry(m, entity_type, entity_id) ==
    {e \in m[entity_type] : e["id"] = StringValue(entity_id)}

\* MemoryDb::create_entity: one entity per (entity_type, id), a write
\* overwrites; the entity is kept with is_deleted = false
mem_create_entity(m, entity_type, data) ==
    [m EXCEPT ![entity_type] =
        {e \in @ : e["id"] # data["id"]}
        \cup {MapPut(data, "is_deleted", BoolValue(FALSE))}]

\* MemoryDb::soft_delete: writes is_deleted = true without removing
mem_soft_delete(m, entity_type, entity_id) ==
    LET entry == MemEntry(m, entity_type, entity_id)
        old == IF entry = {} THEN [id |-> StringValue(entity_id)]
               ELSE CHOOSE e \in entry : TRUE
    IN  [m EXCEPT ![entity_type] =
            (@ \ entry) \cup {MapPut(old, "is_deleted", BoolValue(TRUE))}]

\* an extract_data that leaves out the soft-deleted entities
mem_extract_data_live(m) ==
    [values |-> UNION {{<<t, e>> : e \in {x \in m[t] : x["is_deleted"] = BoolValue(FALSE)}} :
                       t \in DOMAIN m},
     mem |-> NoTables]

\* MemoryDb::extract_data: drains the contents as (entity_type, RawEntity) pairs
mem_extract_data(m) ==
    [values |-> UNION {{<<t, e>> : e \in m[t]} : t \in DOMAIN m},
     mem |-> NoTables]

\* MemoryDb::clear
mem_clear(m) == NoTables

\* the rows of a batch written one after the other
RECURSIVE InsertAll(_, _, _)
InsertAll(tbls, block_ptr, values) ==
    IF values = {} THEN tbls
    ELSE LET v == CHOOSE x \in values : TRUE
             row == generate_insert_query(v[1], v[2], block_ptr).row
         IN  InsertAll([tbls EXCEPT ![v[1]] = InsertRow(@, row)],
                       block_ptr, values \ {v})

\* Scylladb::batch_insert_entities with values that fit one chunk: MissingField
\* when an entity has no is_deleted, an error when prepare_batch fails (ok is
\* FALSE); the batch itself is retried until it is written
batch_insert_entities(tbls, block_ptr, values, ok) ==
    IF \E v \in values : "is_deleted" \notin DOMAIN v[2]
    THEN [ret |-> "Err", tables |-> tbls]
    ELSE IF \E v \in values : generate_insert_query(v[1], v[2], block_ptr).panic
    THEN [ret |-> "Panic", tables |-> tbls]
    ELSE IF ~ok THEN [ret |-> "Err", tables |-> tbls]
    ELSE [ret |-> "Ok", tables |-> InsertAll(tbls, block_ptr, values)]

\* a migrate that returns without save_block_ptr
migrate_from_mem_to_db_no_save(m, tbls, ptr_table, block_ptr, batch_ok, save_ok) ==
    LET extracted == mem_extract_data(m)
        inserted == batch_insert_entities(tbls, block_ptr, extracted.values, batch_ok)
    IN  [ret |-> inserted.ret, mem |-> extracted.mem,
         tables |-> inserted.tables, block_ptr_table |-> ptr_table]

\* Database::migrate_from_mem_to_db(block_ptr)
migrate_from_mem_to_db(m, tbls, ptr_table, block_ptr, batch_ok, save_ok) ==
    LET extracted == mem_extract_data(m)
        inserted == batch_insert_entities(tbls, block_ptr, extracted.values, batch_ok)
    IN  IF inserted.ret # "Ok"
        THEN [ret |-> inserted.ret, mem |-> extracted.mem,
              tables |-> tbls, block_ptr_table |-> ptr_table]
        ELSE IF ~save_ok
        THEN [ret |-> "Err", mem |-> extracted.mem,
              tables |-> inserted.tables, block_ptr_table |-> ptr_table]
        ELSE [ret |-> "Ok", mem |-> extracted.mem,
              tables |-> inserted.tables,
              block_ptr_table |-> save_block_ptr(ptr_table, block_ptr)]

\* the entities the guest writes through the facade
FacadeEntities ==
    [Token |-> {[id |-> StringValue("a"), supply |-> BigIntValue(0 - 7),
                 users |-> ListValue(<<StringValue("u")>>)],
                [id |-> StringValue("a"), supply |-> BigIntValue(12)]},
     User |-> {[id |-> StringValue("u")]}]

\* RawEntities without an id, and with an id that is not a String
MalformedEntities ==
    [Token |-> {},
     User |-> {[nick |-> StringValue("n")], [id |-> BigIntValue(12)]}]

\* Database::handle_create: what is returned (Create(id), InvalidValue, or the
\* panic of expect) and the Memory Store afterwards
handle_create(m, entity_type, data) ==
    IF "id" \notin DOMAIN data
    THEN [ret |-> "Panic", id |-> "", mem |-> m]
    ELSE LET created == mem_create_entity(m, entity_type, data)
         IN  IF data["id"].k = "String"
             THEN [ret |-> "Create", id |-> data["id"].str, mem |-> created]
             ELSE [ret |-> "InvalidValue", id |-> "", mem |-> created]

\* an update that files the entity under the id of the request
handle_update_by_id(m, entity_type, entity_id, data) ==
    LET r == handle_create(m, entity_type, MapPut(data, "id", StringValue(entity_id)))
    IN  IF r.ret = "Create" THEN [r EXCEPT !.ret = "Update", !.id = ""] ELSE r

\* Database::handle_update: handle_create, then Update
handle_update(m, entity_type, entity_id, data) ==
    LET r == handle_create(m, entity_type, data)
    IN  IF r.ret = "Create" THEN [r EXCEPT !.ret = "Update", !.id = ""] ELSE r

\* Database::handle_create (StoreOperationMessage::Create)
HandleCreateOf(entity_types) ==
    \E entity_type \in entity_types :
        \E data \in FacadeEntities[entity_type] :
            LET r == handle_create(mem, entity_type, data)
            IN  /\ mem' = r.mem
                /\ store_op' = StoreOp("handle_create",
                                       CASE r.ret = "Create" -> "Ok"
                                         [] r.ret = "InvalidValue" -> "Err"
                                         [] r.ret = "Panic" -> "Panic",
                                       FALSE)
                /\ UNCHANGED <<tables, block_ptr_table>>

HandleCreate == HandleCreateOf(get_entity_names)

\* Database::handle_delete (StoreOperationMessage::Delete)
HandleDeleteOf(entity_types) ==
    \E entity_type \in entity_types :
        \E entity_id \in {e["id"].str : e \in FacadeEntities[entity_type]} :
            /\ mem' = mem_soft_delete(mem, entity_type, entity_id)
            /\ store_op' = StoreOp("handle_delete", "Ok", FALSE)
            /\ UNCHANGED <<tables, block_ptr_table>>

HandleDelete == HandleDeleteOf(get_entity_names)

\* Agent::migrate(block_ptr)
Migrate ==
    \E block_ptr \in EntityBlockPtrs, batch_ok \in BOOLEAN, save_ok \in BOOLEAN :
        LET r == migrate_from_mem_to_db(mem, tables, block_ptr_table, block_ptr,
                                        batch_ok, save_ok)
        IN  /\ mem' = r.mem
            /\ tables' = r.tables
            /\ RowCount(tables') <= MaxRows
            /\ block_ptr_table' = r.block_ptr_table
            /\ store_op' = StoreOp("migrate", r.ret, tables' # tables)

\* MemoryDb::load_entity_latest: the entry of the id, an Option. Whether an
\* entry with is_deleted = true is returned or hidden is not said of the
\* Memory Store: hides_deleted stands for the two readings
mem_load_entity_latest(m, entity_type, entity_id, hides_deleted) ==
    {e \in MemEntry(m, entity_type, entity_id) :
        ~(hides_deleted /\ e["is_deleted"] = BoolValue(TRUE))}

\* a load that answers from the External Store without keeping the entity
handle_load_no_backfill(m, tbls, entity_type, entity_id, hides_deleted) ==
    LET entity == mem_load_entity_latest(m, entity_type, entity_id, hides_deleted)
        fetched == load_entity_latest(tbls, entity_type, entity_id)
    IN  IF entity # {} THEN [ret |-> entity, mem |-> m, queried |-> FALSE]
        ELSE [ret |-> fetched, mem |-> m, queried |-> TRUE]

\* Database::handle_load: what is returned (an Option), the Memory Store
\* afterwards and whether the External Store was queried
handle_load(m, tbls, entity_type, entity_id, hides_deleted) ==
    LET entity == mem_load_entity_latest(m, entity_type, entity_id, hides_deleted)
        fetched == load_entity_latest(tbls, entity_type, entity_id)
    IN  IF entity # {} THEN [ret |-> entity, mem |-> m, queried |-> FALSE]
        ELSE IF fetched = {} THEN [ret |-> {}, mem |-> m, queried |-> TRUE]
        ELSE [ret |-> fetched,
              mem |-> mem_create_entity(m, entity_type, CHOOSE data \in fetched : TRUE),
              queried |-> TRUE]

\* Database::handle_load_in_block
handle_load_in_block(m, entity_type, entity_id, hides_deleted) ==
    mem_load_entity_latest(m, entity_type, entity_id, hides_deleted)

\* the ids a relation field's value names: a String, or the Strings of a List
related_ids(value) ==
    IF value.k = "String" THEN <<value.str>>
    ELSE IF value.k = "List"
    THEN LET strings == SelectSeq(value.list, LAMBDA v : v.k = "String")
         IN  [i \in DOMAIN strings |-> strings[i].str]
    ELSE <<>>

\* SchemaLookup::get_relation_field: an Option of (relation table, field)
get_relation_field(entity_type, field_name) ==
    IF field_name \in DOMAIN get_schema(entity_type)
    THEN get_field(entity_type, field_name).relation
    ELSE {}

\* self.mem.create_entity for every entity of a Vec, in its order
RECURSIVE mem_create_entities(_, _, _)
mem_create_entities(m, entity_type, entities) ==
    IF entities = <<>> THEN m
    ELSE mem_create_entities(mem_create_entity(m, entity_type, Head(entities)),
                             entity_type, Tail(entities))

\* Database::handle_load_related: LoadRelated(entities) or the panic of an
\* unwrap, and the Memory Store afterwards
handle_load_related(m, tbls, entity_type, entity_id, field_name, hides_deleted) ==
    LET entity == mem_load_entity_latest(m, entity_type, entity_id, hides_deleted)
        e == CHOOSE x \in entity : TRUE
        relation == get_relation_field(entity_type, field_name)
        relation_table == (CHOOSE r \in relation : TRUE)[1]
        ids == related_ids(e[field_name])
        in_mem(id) == mem_load_entity_latest(m, relation_table, id, hides_deleted)
        found == SelectSeq(ids, LAMBDA id : in_mem(id) # {})
        missing_ids == SelectSeq(ids, LAMBDA id : in_mem(id) = {})
        fetched == IF missing_ids = <<>> THEN <<>>
                   ELSE load_entities(tbls, relation_table, missing_ids)
    IN  IF entity = {} \/ field_name \notin DOMAIN e
        THEN [ret |-> "Panic", entities |-> <<>>, mem |-> m]
        ELSE IF relation = {}
        THEN [ret |-> "LoadRelated", entities |-> <<>>, mem |-> m]
        ELSE [ret |-> "LoadRelated",
              entities |-> [i \in DOMAIN found |-> CHOOSE x \in in_mem(found[i]) : TRUE]
                               \o fetched,
              mem |-> mem_create_entities(m, relation_table, fetched)]

\* the ids the guest asks for
FacadeIds(entity_type) == {e["id"].str : e \in FacadeEntities[entity_type]}

\* Database::handle_update (StoreOperationMessage::Update)
HandleUpdateOf(entity_types) ==
    \E entity_type \in entity_types :
        \E data \in FacadeEntities[entity_type], entity_id \in FacadeIds(entity_type) :
            LET r == handle_update(mem, entity_type, entity_id, data)
            IN  /\ mem' = r.mem
                /\ store_op' = StoreOp("handle_update",
                                       CASE r.ret = "Update" -> "Ok"
                                         [] r.ret = "InvalidValue" -> "Err"
                                         [] r.ret = "Panic" -> "Panic",
                                       FALSE)
                /\ UNCHANGED <<tables, block_ptr_table>>

\* Database::handle_load (StoreOperationMessage::Load)
HandleLoadOf(entity_types) ==
    \E entity_type \in entity_types, hides_deleted \in BOOLEAN :
        \E entity_id \in FacadeIds(entity_type) :
            LET r == handle_load(mem, tables, entity_type, entity_id, hides_deleted)
            IN  /\ \/ /\ mem' = r.mem
                      /\ store_op' = StoreOp("handle_load", "Ok", FALSE)
                   \/ /\ r.queried
                      /\ mem' = mem
                      /\ store_op' = StoreOp("handle_load", "Err", FALSE)
                /\ UNCHANGED <<tables, block_ptr_table>>

\* Database::handle_load_in_block (StoreOperationMessage::LoadInBlock)
HandleLoadInBlock ==
    /\ store_op' = StoreOp("handle_load_in_block", "Ok", FALSE)
    /\ UNCHANGED <<tables, block_ptr_table, mem>>

\* Database::handle_load_related (StoreOperationMessage::LoadRelated)
HandleLoadRelated ==
    \E entity_type \in get_entity_names, hides_deleted \in BOOLEAN :
        \E entity_id \in FacadeIds(entity_type), field_name \in {"users", "id"} :
            LET r == handle_load_related(mem, tables, entity_type, entity_id,
                                         field_name, hides_deleted)
            IN  /\ mem' = r.mem
                /\ store_op' = StoreOp("handle_load_related",
                                       IF r.ret = "Panic" THEN "Panic" ELSE "Ok", FALSE)
                /\ UNCHANGED <<tables, block_ptr_table>>

\* Agent::clear_in_memory
ClearInMemory ==
    /\ mem' = mem_clear(mem)
    /\ store_op' = StoreOp("clear_in_memory", "Ok", FALSE)
    /\ UNCHANGED <<tables, block_ptr_table>>

----------------------------------------------------------------------------
(* migrate in steps: batch_insert_entities cuts the values into chunks,       *)
(* prepares one batch per chunk and hands each batch to a spawned task that   *)
(* retries it until it is written; the steps are the code between two awaits  *)

\* let chunk_size = 100
chunk_size == 100

\* a Vec with the elements of a set. The order in which extract_data lists the
\* entities is that of the Memory Store's map; one order is taken
RECURSIVE VecOf(_)
VecOf(S) ==
    IF S = {} THEN <<>>
    ELSE LET a == CHOOSE x \in S : TRUE
             rest == S \ {a}
         IN  IF rest = {} THEN <<a>>
             ELSE LET b == CHOOSE x \in rest : TRUE
                  IN  <<a, b>> \o VecOf(rest \ {b})

\* slice::chunks: consecutive slices of size elements, the last one shorter
chunks(values, size) ==
    [i \in 1..((Len(values) + size - 1) \div size) |->
        SubSeq(values, (i - 1) * size + 1, Min(i * size, Len(values)))]

\* session.batch: the statements of a batch applied in their order; of two
\* statements with the same key the later one stays
InsertBatch(tbls, block_ptr, batch) ==
    LET row(i) == generate_insert_query(batch[i][1], batch[i][2], block_ptr).row
        last(t) == {i \in DOMAIN batch :
                      /\ batch[i][1] = t
                      /\ \A j \in DOMAIN batch :
                            (j > i /\ batch[j][1] = t) => ~SameKey(row(j), row(i))}
        written(t) == {row(i) : i \in last(t)}
    IN  [t \in DOMAIN tbls |->
            {r \in tbls[t] : \A w \in written(t) : ~SameKey(r, w)} \cup written(t)]

\* the callers of the Agent's entry points: the guest threads of two
\* datasources, the task that flushes and the task that clears
Guests == {"guest1", "guest2"}

Callers == Guests \cup {"migrate", "clear_in_memory"}

\* the requests a caller makes
Requests(caller) ==
    IF caller \in Guests THEN {"Create", "Delete"} ELSE {caller}

\* Mutex<Database>: nobody holds it, every caller is outside the Agent
IdleAgent ==
    [holder |-> {}, pc |-> [c \in Callers |-> "idle"], request |-> [c \in Callers |-> "None"]]

\* a mutex that is handed out while it is held
mutex_free_always(holder) == TRUE

\* Mutex::blocking_lock / Mutex::lock().await return when nobody holds the mutex
mutex_free(holder) == holder = {}

\* no migrate under way, no insert task alive
IdleFlush ==
    [pc |-> "idle",
     block_ptr |-> [number |-> 0, hash |-> "h1", parent_hash |-> "h1"],
     values |-> {},
     pending |-> <<>>,
     inserts |-> {}]

\* no migrate, no block and no call of the Agent under way
InitTasks == flush = IdleFlush /\ pipeline = "idle" /\ agent = IdleAgent

\* migrate (or batch_insert_entities called on its own, pc = "batch")
\* returns: the tasks it spawned and no longer awaits keep running
MigrateReturns(ret) ==
    /\ flush' = [flush EXCEPT !.pc = "idle", !.pending = <<>>,
                              !.inserts = {[i EXCEPT !.awaited = FALSE] : i \in @}]
    /\ store_op' = StoreOp(IF flush.pc = "batch" THEN "batch_insert_entities" ELSE "migrate",
                           ret, FALSE)

\* Database::migrate_from_mem_to_db up to the first await of
\* batch_insert_entities: the Memory Store is extracted, the values are chunked
MigrateBegin ==
    /\ flush.pc = "idle"
    /\ \E block_ptr \in EntityBlockPtrs :
          LET extracted == mem_extract_data(mem)
          IN  /\ mem' = extracted.mem
              /\ flush' = [flush EXCEPT
                      !.pc = "chunks",
                      !.block_ptr = block_ptr,
                      !.values = extracted.values,
                      !.pending = chunks(VecOf(extracted.values), chunk_size)]
    /\ store_op' = StoreOp("migrate", "Running", FALSE)
    /\ UNCHANGED <<tables, block_ptr_table>>

\* one turn of `for chunk in chunks`: MissingField, or prepare_batch fails and
\* `?` returns the error, or the batch is handed to a spawned task
PrepareChunk ==
    /\ flush.pc \in {"chunks", "batch"}
    /\ flush.pending # <<>>
    /\ LET chunk == Head(flush.pending)
       IN  IF \E i \in DOMAIN chunk : "is_deleted" \notin DOMAIN chunk[i][2]
           THEN MigrateReturns("MissingField")
           ELSE IF \E i \in DOMAIN chunk :
                       generate_insert_query(chunk[i][1], chunk[i][2], flush.block_ptr).panic
           THEN MigrateReturns("Panic")
           ELSE \/ MigrateReturns("Err")
                \/ /\ flush' = [flush EXCEPT
                           !.pending = Tail(@),
                           !.inserts = @ \cup {[block_ptr |-> flush.block_ptr,
                                                values |-> chunk,
                                                awaited |-> TRUE]}]
                   /\ UNCHANGED store_op
    /\ UNCHANGED <<tables, block_ptr_table, mem>>

\* a spawned task's session.batch succeeds (a failed attempt is retried and
\* changes nothing): the rows of its chunk are written
WriteBatch ==
    \E insert \in flush.inserts :
        /\ tables' = InsertBatch(tables, insert.block_ptr, insert.values)
        /\ flush' = [flush EXCEPT !.inserts = @ \ {insert}]
        /\ UNCHANGED <<block_ptr_table, mem, store_op>>

\* a batch_insert_entities that returns without awaiting its tasks
JoinAll_no_wait ==
    /\ flush.pc \in {"chunks", "batch"}
    /\ flush.pending = <<>>
    /\ IF flush.pc = "chunks"
       THEN flush' = [flush EXCEPT !.pc = "save"] /\ UNCHANGED store_op
       ELSE MigrateReturns("Ok")
    /\ UNCHANGED <<tables, block_ptr_table, mem>>

\* try_join_all(inserts) returns once every task of this call has written its
\* batch; batch_insert_entities returns Ok
JoinAll ==
    /\ flush.pc \in {"chunks", "batch"}
    /\ flush.pending = <<>>
    /\ \A insert \in flush.inserts : ~insert.awaited
    /\ IF flush.pc = "chunks"
       THEN flush' = [flush EXCEPT !.pc = "save"] /\ UNCHANGED store_op
       ELSE MigrateReturns("Ok")
    /\ UNCHANGED <<tables, block_ptr_table, mem>>

\* self.db.save_block_ptr(block_ptr).await?, the last step of migrate
MigrateSave ==
    /\ flush.pc = "save"
    /\ \/ /\ block_ptr_table' = save_block_ptr(block_ptr_table, flush.block_ptr)
          /\ MigrateReturns("Ok")
       \/ /\ UNCHANGED block_ptr_table
          /\ MigrateReturns("Err")
    /\ UNCHANGED <<tables, mem>>

\* the values batch_insert_entities is called with on its own: n User
\* entities, every second one soft-deleted, the one at position bad (if any)
\* without the is_deleted field
BatchValues(n, bad) ==
    [i \in 1..n |->
        LET data == [id |-> StringValue("u" \o digits_to_string(i))]
        IN  <<"User", IF i = bad THEN data
                      ELSE MapPut(data, "is_deleted", BoolValue(i % 2 = 0))>>]

\* where the entity without is_deleted stands: nowhere (0), at the start or
\* at the end of the first chunk, or in the second chunk
BadPositions(n) ==
    {0, 1, 2, chunk_size - 1, chunk_size, chunk_size + 1, chunk_size + 2} \cap 0..n

\* Scylladb::batch_insert_entities(block_ptr, values) called on its own on an
\* empty store, up to the first turn of its loop
BatchInsertEntities ==
    /\ flush.pc = "idle"
    /\ flush.inserts = {}
    /\ tables = NoTables
    /\ \E block_ptr \in EntityBlockPtrs, n \in (chunk_size - 1)..(chunk_size + 2) :
         \E bad \in BadPositions(n) :
            LET values == BatchValues(n, bad)
            IN  flush' = [flush EXCEPT
                    !.pc = "batch",
                    !.block_ptr = block_ptr,
                    !.values = {values[i] : i \in DOMAIN values},
                    !.pending = chunks(values, chunk_size)]
    /\ store_op' = StoreOp("batch_insert_entities", "Running", FALSE)
    /\ UNCHANGED <<tables, block_ptr_table, mem>>

\* the Memory Store after n calls of handle_create with distinct User ids
FlushUsers(n) ==
    {MapPut([id |-> StringValue("u" \o digits_to_string(i))],
            "is_deleted", BoolValue(FALSE)) : i \in 1..n}

----------------------------------------------------------------------------
(* Pipeline Orchestrator: one block at a time is put to the Inspector and,   *)
(* when admitted, flushed with migrate. The decoding of the block and the    *)
(* guest's handlers lie between the two steps and are left out: the blocks   *)
(* of this model write no entity                                             *)

\* the blocks the source delivers: the possible start blocks and one more
PipelineBlocks == [number : 0..(MaxStartBlock + 1), hash : Hashes, parent_hash : Hashes]

\* step 1: consult the Inspector and act on its result
AdmitBlock ==
    /\ pipeline = "idle"
    /\ \E new \in PipelineBlocks :
          LET r == check_block(recent_block_ptrs, sources, reorg_threshold, new)
          IN  /\ DoCheckBlock(new)
              /\ IF r.result = "ForkBlock"
                 THEN /\ tables' = revert_from_block(tables, block_ptr_table,
                                                     new.number).tables
                      /\ mem' = mem_clear(mem)
                      /\ store_op' = StoreOp("revert_from_block", "Ok", tables' # tables)
                 ELSE UNCHANGED <<tables, mem, store_op>>
              /\ pipeline' = IF r.result \in {"OkToProceed", "ForkBlock"} THEN "flush"
                             ELSE IF r.result \in {"UnexpectedBlock", "UnrecognizedBlock"}
                             THEN "stopped"
                             ELSE "idle"
    /\ UNCHANGED <<block_ptr_table, replayed, flush, agent>>

\* steps 4 and 5: migrate(block_ptr) of the admitted block; whether it fails or
\* not, the orchestrator waits for the next input
FlushBlock ==
    /\ pipeline = "flush"
    /\ \E batch_ok \in BOOLEAN, save_ok \in BOOLEAN :
          LET r == migrate_from_mem_to_db(mem, tables, block_ptr_table, new_block_ptr,
                                          batch_ok, save_ok)
          IN  /\ mem' = r.mem
              /\ tables' = r.tables
              /\ block_ptr_table' = r.block_ptr_table
              /\ store_op' = StoreOp("migrate", r.ret, tables' # tables)
    /\ pipeline' = "idle"
    /\ UNCHANGED <<inspectorVars, flush, agent>>

----------------------------------------------------------------------------
(* Agent: the entry points wasm_send_store_request, migrate and              *)
(* clear_in_memory, each in three steps: the call, the mutex acquired, the   *)
(* work on the Database done under the mutex and the return                  *)

\* a caller enters an entry point and asks for the mutex
AgentCall ==
    \E caller \in Callers : \E request \in Requests(caller) :
        /\ agent.pc[caller] = "idle"
        /\ agent' = [agent EXCEPT !.pc[caller] = "waiting", !.request[caller] = request]
        /\ UNCHANGED storeVars

\* self.db.blocking_lock() or self.db.lock().await returns the guard
AgentLockOf(caller) ==
    /\ agent.pc[caller] = "waiting"
    /\ mutex_free(agent.holder)
    /\ agent' = [agent EXCEPT !.pc[caller] = "running", !.holder = @ \cup {caller}]
    /\ UNCHANGED storeVars

AgentLock == \E caller \in Callers : AgentLockOf(caller)

\* what a request does to the Database: a guest's Create or Delete of the User
\* "u", migrate at the block in hand, clear
AgentWork(request) ==
    CASE request = "Create" ->
            /\ mem' = mem_create_entity(mem, "User", [id |-> StringValue("u")])
            /\ store_op' = StoreOp("handle_create", "Ok", FALSE)
            /\ UNCHANGED <<tables, block_ptr_table>>
      [] request = "Delete" ->
            /\ mem' = mem_soft_delete(mem, "User", "u")
            /\ store_op' = StoreOp("handle_delete", "Ok", FALSE)
            /\ UNCHANGED <<tables, block_ptr_table>>
      [] request = "migrate" ->
            \E batch_ok \in BOOLEAN, save_ok \in BOOLEAN :
                LET r == migrate_from_mem_to_db(mem, tables, block_ptr_table,
                                                new_block_ptr, batch_ok, save_ok)
                IN  /\ mem' = r.mem
                    /\ tables' = r.tables
                    /\ block_ptr_table' = r.block_ptr_table
                    /\ store_op' = StoreOp("migrate", r.ret, tables' # tables)
      [] request = "clear_in_memory" ->
            /\ mem' = mem_clear(mem)
            /\ store_op' = StoreOp("clear_in_memory", "Ok", FALSE)
            /\ UNCHANGED <<tables, block_ptr_table>>

\* an entry point that returns with the guard still held
AgentReturnOf_keep_guard(caller) ==
    /\ agent.pc[caller] = "running"
    /\ AgentWork(agent.request[caller])
    /\ agent' = [agent EXCEPT !.pc[caller] = "idle"]

\* the request is served under the guard, the guard is dropped, the entry
\* point returns
AgentReturnOf(caller) ==
    /\ agent.pc[caller] = "running"
    /\ AgentWork(agent.request[caller])
    /\ agent' = [agent EXCEPT !.pc[caller] = "idle", !.holder = @ \ {caller}]

AgentReturn == \E caller \in Callers : AgentReturnOf(caller)

----------------------------------------------------------------------------
(* Specifications *)

\* an Inspector that is never called
IdleInspector ==
    /\ recent_block_ptrs = <<>>
    /\ sources = <<>>
    /\ reorg_threshold = 1
    /\ result = "None"
    /\ new_block_ptr = [number |-> 0, hash |-> "h1", parent_hash |-> "h1"]
    /\ replayed = <<>>

\* the Inspector called with arbitrary blocks
InitInspectorSpec == InitInspector /\ InitStore /\ InitTasks

NextInspector == CheckBlock /\ UNCHANGED nonInspectorVars

SpecInspector == InitInspectorSpec /\ [][NextInspector]_vars

\* the Inspector fed a parent-linked chain
NextReplay == ReplayBlock /\ UNCHANGED nonInspectorVars

SpecReplay == InitInspectorSpec /\ [][NextReplay]_vars

\* the External Store called with arbitrary operations
InitStoreSpec == IdleInspector /\ InitStore /\ InitTasks

NextStore ==
    \/ CreateEntity /\ UNCHANGED nonStoreVars
    \/ SoftDeleteEntity /\ UNCHANGED nonStoreVars
    \/ RevertFromBlock /\ UNCHANGED nonStoreVars

SpecStore == InitStoreSpec /\ [][NextStore]_vars

\* the External Store's block_ptr table next to one entity table
NextBlockPtr ==
    \/ SaveBlockPtr /\ UNCHANGED nonStoreVars
    \/ CreateEntityOf({"User"}) /\ UNCHANGED nonStoreVars
    \/ RevertFromBlock /\ UNCHANGED nonStoreVars

SpecBlockPtr == InitStoreSpec /\ [][NextBlockPtr]_vars

\* the Store Facade called by the guest and by the scheduler
NextFacade ==
    \/ HandleCreate /\ UNCHANGED nonStoreVars
    \/ HandleDelete /\ UNCHANGED nonStoreVars
    \/ Migrate /\ UNCHANGED nonStoreVars
    \/ ClearInMemory /\ UNCHANGED nonStoreVars

SpecFacade == InitStoreSpec /\ [][NextFacade]_vars

\* the guest's requests on the entities of one type, with migrate
NextLoads ==
    \/ HandleCreateOf({"Token"}) /\ UNCHANGED nonStoreVars
    \/ HandleUpdateOf({"Token"}) /\ UNCHANGED nonStoreVars
    \/ HandleDeleteOf({"Token"}) /\ UNCHANGED nonStoreVars
    \/ HandleLoadOf({"Token"}) /\ UNCHANGED nonStoreVars
    \/ HandleLoadInBlock /\ UNCHANGED nonStoreVars
    \/ Migrate /\ UNCHANGED nonStoreVars

SpecLoads == InitStoreSpec /\ [][NextLoads]_vars

\* the guest writes entities and follows a relation, with migrate
NextRelated ==
    \/ HandleCreate /\ UNCHANGED nonStoreVars
    \/ HandleDeleteOf({"User"}) /\ UNCHANGED nonStoreVars
    \/ HandleLoadRelated /\ UNCHANGED nonStoreVars
    \/ Migrate /\ UNCHANGED nonStoreVars

SpecRelated == InitStoreSpec /\ [][NextRelated]_vars

\* the block_ptr table next to the entity tables: migrate and the operations
\* on stored history
NextPointers ==
    \/ HandleCreate /\ UNCHANGED nonStoreVars
    \/ Migrate /\ UNCHANGED nonStoreVars
    \/ CreateEntityOf({"User"}) /\ UNCHANGED nonStoreVars
    \/ SaveBlockPtrOf(EntityBlockPtrs) /\ UNCHANGED nonStoreVars
    \/ RevertFromBlock /\ UNCHANGED nonStoreVars
    \/ RemoveSnapshots /\ UNCHANGED nonStoreVars
    \/ CleanDataHistory /\ UNCHANGED nonStoreVars

SpecPointers == InitStoreSpec /\ [][NextPointers]_vars

\* the orchestrator over a fresh Inspector and an empty store
InitPipelineSpec == InitInspector /\ InitStore /\ InitTasks

NextPipeline ==
    \/ AdmitBlock
    \/ FlushBlock

SpecPipeline == InitPipelineSpec /\ [][NextPipeline]_vars

\* the Agent called from the guest threads and from the scheduler's tasks
NextAgent ==
    \/ AgentCall /\ UNCHANGED <<inspectorVars, flushVars, pipeline>>
    \/ AgentLock /\ UNCHANGED <<inspectorVars, flushVars, pipeline>>
    \/ AgentReturn /\ UNCHANGED <<inspectorVars, flushVars, pipeline>>

SpecAgent == InitStoreSpec /\ [][NextAgent]_vars

\* the scheduling of the callers: tokio's Mutex hands the lock to its waiters
\* in the order they asked for it, so a caller that waits is not passed over
\* for ever; the work under the guard is run to its end (every call of the
\* backend terminates)
AgentFairness ==
    \A caller \in Callers :
        /\ SF_vars(AgentLockOf(caller) /\ UNCHANGED <<inspectorVars, flushVars, pipeline>>)
        /\ WF_vars(AgentReturnOf(caller) /\ UNCHANGED <<inspectorVars, flushVars, pipeline>>)

SpecAgentFair == SpecAgent /\ AgentFairness

\* migrate step by step, from a Memory Store of up to chunk_size + 1 entities
InitFlushSpec ==
    /\ IdleInspector
    /\ tables = NoTables
    /\ block_ptr_table = {}
    /\ store_op = StoreOp("None", "Ok", FALSE)
    /\ InitTasks
    /\ \E n \in 0..(chunk_size + 1) : mem = [NoTables EXCEPT !["User"] = FlushUsers(n)]

NextFlush ==
    \/ MigrateBegin /\ UNCHANGED nonFlushVars
    \/ PrepareChunk /\ UNCHANGED nonFlushVars
    \/ WriteBatch /\ UNCHANGED nonFlushVars
    \/ JoinAll /\ UNCHANGED nonFlushVars
    \/ MigrateSave /\ UNCHANGED nonFlushVars

SpecFlush == InitFlushSpec /\ [][NextFlush]_vars

\* batch_insert_entities called on its own, step by step, on an empty store
NextBatch ==
    \/ BatchInsertEntities /\ UNCHANGED nonFlushVars
    \/ PrepareChunk /\ UNCHANGED nonFlushVars
    \/ WriteBatch /\ UNCHANGED nonFlushVars
    \/ JoinAll /\ UNCHANGED nonFlushVars

SpecBatch == InitStoreSpec /\ [][NextBatch]_vars

----------------------------------------------------------------------------
(* Claims about the Inspector *)

Range(seq) == {seq[i] : i \in DOMAIN seq}

\* the expected start of an Inspector with an empty window
ExpectedStart == get_expected_block_number(<<>>, sources)

\* C1: starting from an empty window with reorg_threshold >= 1, after any
\* sequence of check_block calls the window length is at most reorg_threshold.
C1_WindowBounded == Len(recent_block_ptrs) <= reorg_threshold

\* a full window whose oldest entry is not the start block: an entry was dropped
C1_Witness ==
    /\ result = "OkToProceed"
    /\ reorg_threshold >= 2
    /\ Len(recent_block_ptrs) = reorg_threshold
    /\ recent_block_ptrs[Len(recent_block_ptrs)].number > ExpectedStart

\* C2: replay. Feeding the parent-linked blocks s, s+1, s+2, ... from the
\* empty window yields OkToProceed every time, and after k blocks the window
\* holds exactly the min(k, reorg_threshold) most recent blocks, newest first.
C2_Replay ==
    LET k == Len(replayed)
    IN  /\ result \in {"None", "OkToProceed"}
        /\ (k = 0) = (result = "None")
        /\ \A i \in 1..k : replayed[i].number = ExpectedStart + i - 1
        /\ recent_block_ptrs = [i \in 1..Min(k, reorg_threshold) |-> replayed[k - i + 1]]

\* a replay longer than the window
C2_Witness ==
    /\ result = "OkToProceed"
    /\ Len(replayed) > reorg_threshold
    /\ reorg_threshold >= 2

\* C3 as stated: with a window of length >= 2, a block whose parent is any
\* entry of the window is classified ForkBlock, becomes the front, and no
\* other entry has a number >= its number.
C3_ForkPost ==
    /\ result' = "ForkBlock"
    /\ recent_block_ptrs' # <<>>
    /\ Head(recent_block_ptrs') = new_block_ptr'
    /\ \A j \in 2..Len(recent_block_ptrs') :
           recent_block_ptrs'[j].number < new_block_ptr'.number

C3_Original ==
    [][(/\ Len(recent_block_ptrs) >= 2
        /\ \E i \in 1..Len(recent_block_ptrs) :
               is_parent(recent_block_ptrs[i], new_block_ptr'))
       => C3_ForkPost]_vars

\* C3 amended: the same for a block that is not itself in the window and
\* whose parent is an entry of the window other than the front.
C3_Fork ==
    [][(/\ Len(recent_block_ptrs) >= 2
        /\ new_block_ptr' \notin Range(recent_block_ptrs)
        /\ \E i \in 2..Len(recent_block_ptrs) :
               is_parent(recent_block_ptrs[i], new_block_ptr'))
       => C3_ForkPost]_vars

\* a fork that replaced an entry and kept at least two older ones
C3_Witness ==
    /\ result = "ForkBlock"
    /\ Len(recent_block_ptrs) >= 2
    /\ Head(recent_block_ptrs) = new_block_ptr
    /\ is_parent(recent_block_ptrs[2], new_block_ptr)

\* C4: a block structurally equal to a member of the window is classified
\* BlockAlreadyProcessed and the window is left as it was (so repeating the
\* call gives the same again).
C4_Duplicate ==
    [][(new_block_ptr' \in Range(recent_block_ptrs))
       => (/\ result' = "BlockAlreadyProcessed"
           /\ recent_block_ptrs' = recent_block_ptrs)]_vars

\* a duplicate of the front, and of an entry behind the front, was submitted
C4_Witness ==
    /\ result = "BlockAlreadyProcessed"
    /\ new_block_ptr \in Range(recent_block_ptrs)
    /\ Len(recent_block_ptrs) >= 2


----------------------------------------------------------------------------
(* Claims about the External Store *)

\* the arguments revert_from_block is called with
FromBlocks == 0..(MaxBlock + 1)

\* the rows of one id in a table
RowsOf(table, id) == {r \in table : RowId(r) = id}

\* C5: after revert_from_block(B) completes successfully, no entity row of
\* any type and id has block_ptr_number >= B, and the rows with
\* block_ptr_number < B are the ones that were there before.
C5_RevertEntityRows ==
    \A B \in FromBlocks :
        LET after == revert_from_block(tables, block_ptr_table, B).tables
        IN  \A t \in get_entity_names :
                /\ \A r \in after[t] : RowNumber(r) < B
                /\ {r \in after[t] : RowNumber(r) < B}
                       = {r \in tables[t] : RowNumber(r) < B}

\* a revert has removed rows and a row is left
C5_Witness ==
    /\ store_op = StoreOp("revert_from_block", "Ok", TRUE)
    /\ \E t \in get_entity_names : tables[t] # {}

\* C6: after revert_from_block(B) no block_ptr row with block_number >= B is
\* left: get_earliest_block_ptr and load_recent_block_ptrs return none of the
\* reverted blocks.
C6_RevertBlockPtrs ==
    \A B \in FromBlocks :
        LET after == revert_from_block(tables, block_ptr_table, B).block_ptr_table
            recent == load_recent_block_ptrs(after, MaxBlock + 1)
        IN  /\ \A p \in get_earliest_block_ptr(after) : p.number < B
            /\ \A i \in DOMAIN recent : recent[i].number < B

\* C7: after revert_from_block(B), load_entity_latest(type, id) returns the
\* row of id with the largest block_ptr_number < B if that row is not
\* soft-deleted, and none otherwise.
C7_RevertRestoresView ==
    \A B \in FromBlocks, t \in get_entity_names :
        \A id \in EntityIds[t] :
            LET after == revert_from_block(tables, block_ptr_table, B).tables
                below == {r \in RowsOf(tables[t], id) : RowNumber(r) < B}
                top == CHOOSE r \in below : \A o \in below : RowNumber(o) <= RowNumber(r)
            IN  load_entity_latest(after, t, id)
                    = IF below = {} \/ top["is_deleted"] = CqlBoolean(TRUE) THEN {}
                      ELSE {row_to_entity(t, top)}

\* a revert has removed rows, and load_entity_latest returns a version that
\* is left
C7_Witness ==
    /\ store_op = StoreOp("revert_from_block", "Ok", TRUE)
    /\ \E t \in get_entity_names : \E id \in EntityIds[t] :
           load_entity_latest(tables, t, id) # {}

\* E augmented with block_ptr_number = b.number and is_deleted = false
Augmented(E, block_ptr) ==
    MapPut(MapPut(E, "block_ptr_number", Int8Value(block_ptr.number)),
           "is_deleted", BoolValue(FALSE))

\* E as the schema sees it: the schema's fields only, an absent list field
\* as the empty list
SchemaView(entity_type, E) ==
    [f \in {x \in DOMAIN get_schema(entity_type) :
               x \in DOMAIN E \/ get_field(entity_type, x).kind = "Array"} |->
        IF f \in DOMAIN E THEN E[f] ELSE ListValue(<<>>)]

\* the rows of id at block numbers other than the given one
RowsElsewhere(table, id, number) ==
    {r \in RowsOf(table, id) : RowNumber(r) # number}

SoftDeletePost(block_ptr, t, id) ==
    LET r == soft_delete_entity(tables, block_ptr, t, id)
    IN  /\ ~r.panic
        /\ load_entity_latest(r.tables, t, id) = {}
        /\ \A older \in EntityBlockPtrs :
               older.number < block_ptr.number =>
                   load_entity(r.tables, older, t, id) = load_entity(tables, older, t, id)

\* C9 as stated: after soft_delete_entity(b, type, i) on any reachable state,
\* load_entity_latest(type, i) returns none and load_entity(b', type, i) for
\* b' < b returns what it returned before.
C9_Original ==
    \A block_ptr \in EntityBlockPtrs, t \in get_entity_names :
        \A id \in EntityIds[t] : SoftDeletePost(block_ptr, t, id)

\* C9: after soft_delete_entity(b, type, i) on any reachable state in which
\* no row of i has a block_ptr_number greater than b.number,
\* load_entity_latest(type, i) returns none and load_entity(b', type, i) for
\* b' < b returns what it returned before.
C9_LatestExcludesDeleted ==
    \A block_ptr \in EntityBlockPtrs, t \in get_entity_names :
        \A id \in EntityIds[t] :
            (\A r \in RowsOf(tables[t], id) : RowNumber(r) <= block_ptr.number)
                => SoftDeletePost(block_ptr, t, id)

\* a soft_delete_entity has written a row: an id has no latest entity while
\* an older version of it is still loaded at its own block
C9_Witness ==
    /\ store_op = StoreOp("soft_delete_entity", "Ok", TRUE)
    /\ \E t \in get_entity_names : \E id \in EntityIds[t] :
           /\ load_entity_latest(tables, t, id) = {}
           /\ \E older \in EntityBlockPtrs : load_entity(tables, older, t, id) # {}

----------------------------------------------------------------------------
(* Claims about the Store Facade *)

\* what the External Store reads for a Memory Store entity e of type t, apart
\* from the reserved fields: none for a soft-deleted one
SameValue(tbls, t, e) ==
    LET got == load_entity_latest(tbls, t, e["id"].str)
    IN  IF e["is_deleted"] = BoolValue(TRUE) THEN got = {}
        ELSE /\ got # {}
             /\ \A g \in got : MapRemove(g, ReservedFields) = MapRemove(e, ReservedFields)

Covered(tbls, ptr_table) ==
    \A t \in DOMAIN tbls : \A r \in tbls[t] :
        \E p \in ptr_table : p.block_number = RowNumber(r)

\* C12 as stated: in every state the store operations reach, each
\* block_ptr_number present in an entity row has a row in the block_ptr table
C12_Original == Covered(tables, block_ptr_table)

\* the operations that keep the block_ptr table in step with the entity rows
KeepsCovered(op) ==
    \/ op.op = "migrate" /\ op.ret = "Ok"
    \/ op.op \in {"save_block_ptr", "revert_from_block", "remove_snapshots",
                   "clean_data_history"}

\* C12: a migrate that returns Ok, save_block_ptr, revert_from_block,
\* remove_snapshots and clean_data_history take a store where each
\* block_ptr_number of an entity row has a block_ptr row to such a store
C12_BlockPtrCoversRows ==
    [][(Covered(tables, block_ptr_table) /\ KeepsCovered(store_op'))
          => Covered(tables', block_ptr_table')]_vars

\* a migrate has returned Ok and written rows, and every row's block has its
\* block_ptr row
C12_Witness ==
    /\ store_op = StoreOp("migrate", "Ok", TRUE)
    /\ \E t \in DOMAIN tables : tables[t] # {}
    /\ Covered(tables, block_ptr_table)

\* no table holds two rows with the same (id, block_ptr_number)
UniqueKeys(tbls) ==
    \A t \in DOMAIN tbls : \A r1 \in tbls[t], r2 \in tbls[t] :
        SameKey(r1, r2) => r1 = r2

\* create_entity(b, t, data) called in the current state leaves the row it
\* wrote as the only row of its key
WriteReplaces(block_ptr, t, data) ==
    LET r == create_entity(tables, block_ptr, t, data)
        row == generate_insert_query(t, MapPut(data, "is_deleted", BoolValue(FALSE)),
                                     block_ptr).row
    IN  ~r.panic => /\ UniqueKeys(r.tables)
                    /\ row \in r.tables[t]

\* Create(t, data), Delete(t, id) and migrate(b) in the current state leave one
\* row of (id, b), with is_deleted = true
CreatedThenDeleted(block_ptr, t, data) ==
    LET id == data["id"].str
        m == mem_soft_delete(mem_create_entity(mem, t, data), t, id)
        after == migrate_from_mem_to_db(m, tables, block_ptr_table, block_ptr, TRUE, TRUE)
        rows == {r \in after.tables[t] :
                    RowId(r) = id /\ RowNumber(r) = block_ptr.number}
    IN  after.ret = "Ok" => /\ UniqueKeys(after.tables)
                            /\ Cardinality(rows) = 1
                            /\ \A r \in rows : r["is_deleted"] = CqlBoolean(TRUE)

\* C13: the External Store never holds two rows with the same (entity_type,
\* id, block_ptr_number); a write to an existing key replaces the row; an id
\* created and deleted in one block is, after migrate, one row with
\* is_deleted = true
C13_UniqueRows ==
    /\ UniqueKeys(tables)
    /\ \A block_ptr \in EntityBlockPtrs : \A t \in get_entity_names :
          /\ \A data \in RawEntities[t] : WriteReplaces(block_ptr, t, data)
          /\ \A data \in FacadeEntities[t] : CreatedThenDeleted(block_ptr, t, data)

\* a soft delete has written over the row that a create wrote at the same
\* block: the store holds that one row, with is_deleted = true
C13_Witness ==
    /\ store_op = StoreOp("soft_delete_entity", "Ok", TRUE)
    /\ RowCount(tables) = 1
    /\ \E r \in tables.Token :
          /\ r["is_deleted"] = CqlBoolean(TRUE)
          /\ r["supply"] # CqlNone

\* C14: a migrate that returns an error leaves the Memory Store holding all
\* the entities it held, so that a retry flushes the same entities
C14_MemoryKept ==
    [][(store_op'.op = "migrate" /\ store_op'.ret # "Ok") => mem' = mem]_vars

\* a flush of the block has succeeded: its pointer is in the block_ptr table
Flushed(block_ptr) ==
    \E p \in block_ptr_table :
        p.block_number = block_ptr.number /\ p.block_hash = block_ptr.hash

\* C15: a block is classified BlockAlreadyProcessed only once a flush of it has
\* succeeded; after a failed migrate(N) the block N is admitted again
C15_FailedFlushNotProcessed ==
    result = "BlockAlreadyProcessed" => Flushed(new_block_ptr)

\* the callers that are at work on the Database
Running == {c \in Callers : agent.pc[c] = "running"}

\* C16: at most one guest request is executed against the Facade at a time,
\* and none while migrate or clear_in_memory is: whoever works on the Database
\* holds the Agent's mutex, alone, from before its first access to its return
C16_MutualExclusion ==
    /\ Cardinality(Running) <= 1
    /\ agent.holder = Running

\* a guest request is served while the other guest, migrate and
\* clear_in_memory wait for the mutex
C16_Witness ==
    /\ agent.pc["guest1"] = "running"
    /\ agent.pc["guest2"] = "waiting"
    /\ agent.pc["migrate"] = "waiting"
    /\ agent.pc["clear_in_memory"] = "waiting"
    /\ mem.User # {}

\* what C17 says of Create and Update of (t, data) sent in the current state
CreatePost(t, data) ==
    LET created == handle_create(mem, t, data)
        updated == handle_update(mem, t, "u", data)
    IN  IF "id" \in DOMAIN data /\ data["id"].k = "String"
        THEN created.ret = "Create" /\ created.id = data["id"].str
        ELSE /\ created.ret = "InvalidValue" /\ created.mem = mem
             /\ updated.ret = "InvalidValue" /\ updated.mem = mem

\* C17: Create and Update return InvalidValue, without a crash and without a
\* change of the Memory Store, when data["id"] is absent or not a String;
\* otherwise Create returns the id
C17_InvalidId ==
    \A t \in get_entity_names :
        \A data \in FacadeEntities[t] \cup MalformedEntities[t] : CreatePost(t, data)

\* C18: with a non-empty window whose front is not the parent of the new
\* block, a block whose number is above front.number + 1 is classified
\* UnexpectedBlock, whatever its hashes, and the window is left as it was
C18_GapIsUnexpected ==
    [][(/\ recent_block_ptrs # <<>>
        /\ ~is_parent(Head(recent_block_ptrs), new_block_ptr')
        /\ new_block_ptr'.number > Head(recent_block_ptrs).number + 1)
       => (/\ result' = "UnexpectedBlock"
           /\ recent_block_ptrs' = recent_block_ptrs)]_vars

\* a block two or more above the front was refused although its parent_hash is
\* the hash of the front
C18_Witness ==
    /\ result = "UnexpectedBlock"
    /\ recent_block_ptrs # <<>>
    /\ new_block_ptr.number > Head(recent_block_ptrs).number + 1
    /\ new_block_ptr.parent_hash = Head(recent_block_ptrs).hash

\* C19: with a non-empty window, a block whose number is below the number of
\* the back is classified UnrecognizedBlock, whatever its hashes, and the
\* window is left as it was; a block whose number is at least that of the
\* back is never classified UnrecognizedBlock
C19_BelowBackUnrecognized ==
    [][recent_block_ptrs # <<>>
       => IF new_block_ptr'.number < recent_block_ptrs[Len(recent_block_ptrs)].number
          THEN /\ result' = "UnrecognizedBlock"
               /\ recent_block_ptrs' = recent_block_ptrs
          ELSE result' # "UnrecognizedBlock"]_vars

\* a block below the back of a window of two was refused, its hash being that
\* of the back
C19_Witness ==
    /\ result = "UnrecognizedBlock"
    /\ Len(recent_block_ptrs) >= 2
    /\ new_block_ptr.number < recent_block_ptrs[Len(recent_block_ptrs)].number
    /\ new_block_ptr.hash = recent_block_ptrs[Len(recent_block_ptrs)].hash

\* the expected start in the words of the spec: the least startBlock that a
\* source has, 0 when no source has one
LeastStartBlock ==
    LET starts == {n \in 0..MaxStartBlock :
                      \E i \in DOMAIN sources : sources[i].startBlock = {n}}
    IN  IF starts = {} THEN 0 ELSE SetMin(starts)

\* C20: with an empty window, a block is classified OkToProceed and becomes the
\* only entry of the window iff its number is the expected start; any other
\* number is classified UnexpectedBlock and the window stays empty
C20_FirstBlock ==
    [][recent_block_ptrs = <<>>
       => IF new_block_ptr'.number = LeastStartBlock
          THEN /\ result' = "OkToProceed"
               /\ recent_block_ptrs' = <<new_block_ptr'>>
          ELSE /\ result' = "UnexpectedBlock"
               /\ recent_block_ptrs' = <<>>]_vars

\* the first block of an Inspector whose two sources start at different blocks
\* was admitted at the smaller one
C20_Witness ==
    /\ result = "OkToProceed"
    /\ recent_block_ptrs = <<new_block_ptr>>
    /\ reorg_threshold >= 2
    /\ Len(sources) = 2
    /\ sources[1].startBlock = {1}
    /\ sources[2].startBlock = {0}
    /\ new_block_ptr.number = 0

\* the row of a drained entity is in its table at the block migrate was called with
Persisted(v) ==
    generate_insert_query(v[1], v[2], flush.block_ptr).row \in tables[v[1]]

\* C11: during and after migrate(b), either every entity drained from the
\* Memory Store has its row at block b in the External Store, or none has
C11_AllOrNone ==
    \/ \A v \in flush.values : Persisted(v)
    \/ \A v \in flush.values : ~Persisted(v)

\* migrate has returned an error, no insert task is left, and some but not all
\* of the drained entities are persisted
C11_PartialAfterError ==
    /\ store_op = StoreOp("migrate", "Err", FALSE)
    /\ flush.inserts = {}
    /\ \E v \in flush.values : Persisted(v)
    /\ \E v \in flush.values : ~Persisted(v)

----------------------------------------------------------------------------
(* Claims about the External Store's reads and pruning *)

\* the rows of id that no other row of id is above
TopRows(table, id) ==
    {r \in RowsOf(table, id) : \A o \in RowsOf(table, id) : RowNumber(o) <= RowNumber(r)}

\* C21: load_entity_latest(type, id) returns the row with the largest
\* block_ptr_number among the rows of id when that row has is_deleted =
\* false, and none when that row has is_deleted = true or id has no row: never
\* an older version in place of a deleted latest one.
C21_LatestRow ==
    \A t \in get_entity_names : \A id \in EntityIds[t] :
        LET got == load_entity_latest(tables, t, id)
        IN  /\ RowsOf(tables[t], id) = {} => got = {}
            /\ \A top \in TopRows(tables[t], id) :
                   got = IF top["is_deleted"] = CqlBoolean(TRUE) THEN {}
                         ELSE {row_to_entity(t, top)}

\* an id has a live row below a deleted one, and load_entity_latest returns
\* none for it
C21_Witness ==
    \E t \in get_entity_names : \E id \in EntityIds[t] :
        /\ \E top \in TopRows(tables[t], id) : \E older \in RowsOf(tables[t], id) :
               /\ RowNumber(older) < RowNumber(top)
               /\ top["is_deleted"] = CqlBoolean(TRUE)
               /\ older["is_deleted"] = CqlBoolean(FALSE)
        /\ load_entity_latest(tables, t, id) = {}

\* C22: load_entity(block_ptr, type, id) returns the row stored under exactly
\* (id, block_ptr.number) whenever such a row exists, a row written by
\* soft_delete_entity at that block included, and none only when no row has
\* that key.
C22_ExactRow ==
    \A block_ptr \in EntityBlockPtrs, t \in get_entity_names :
        \A id \in EntityIds[t] :
            load_entity(tables, block_ptr, t, id)
                = {row_to_entity(t, r) :
                      r \in {x \in RowsOf(tables[t], id) : RowNumber(x) = block_ptr.number}}

\* the drained or passed entities that lack the is_deleted field
LackIsDeleted == {v \in flush.values : "is_deleted" \notin DOMAIN v[2]}

\* C23: if any row passed to batch_insert_entities lacks the is_deleted
\* field, the call does not succeed and no row of that call is persisted,
\* whichever chunk of 100 the offending row falls in; when every row carries
\* is_deleted and the call has returned Ok, every row is persisted with its
\* own is_deleted value and block_ptr_number = block_ptr.number.
C23_MissingField ==
    /\ LackIsDeleted # {} =>
           /\ store_op.ret \in {"Running", "MissingField", "Err"}
           /\ \A v \in flush.values \ LackIsDeleted : ~Persisted(v)
    /\ (LackIsDeleted = {} /\ store_op = StoreOp("batch_insert_entities", "Ok", FALSE)) =>
           \A v \in flush.values : Persisted(v)

\* batch_insert_entities has returned MissingField, no insert task is left,
\* and rows of the call are persisted
C23_PersistedAfterMissingField ==
    /\ store_op = StoreOp("batch_insert_entities", "MissingField", FALSE)
    /\ flush.inserts = {}
    /\ \E v \in flush.values : Persisted(v)

\* the arguments clean_data_history and remove_snapshots are called with
ToBlocks == 0..(MaxBlock + 1)

\* C24: after clean_data_history(T) no entity row with block_ptr_number < T
\* and no block_ptr row with block_number < T exists, every row at or above T
\* is unchanged, and get_earliest_block_ptr returns the stored block pointer
\* with the smallest number >= T (none if there is none).
C24_CleanDataHistory ==
    \A T \in ToBlocks :
        LET after == clean_data_history(tables, block_ptr_table, T)
            earliest == get_earliest_block_ptr(after.block_ptr_table)
            stored == {row_to_block_ptr(r) : r \in block_ptr_table}
        IN  /\ \A t \in get_entity_names :
                   after.tables[t] = {r \in tables[t] : RowNumber(r) >= T}
            /\ after.block_ptr_table = {r \in block_ptr_table : r.block_number >= T}
            /\ earliest = {p \in stored :
                               /\ p.number >= T
                               /\ \A q \in stored : q.number >= T => p.number <= q.number}

\* a clean_data_history has removed something; an entity row and a block
\* pointer are left, and the earliest block pointer is read back
C24_Witness ==
    /\ store_op = StoreOp("clean_data_history", "Ok", TRUE)
    /\ \E t \in get_entity_names : tables[t] # {}
    /\ get_earliest_block_ptr(block_ptr_table) # {}

\* the (type, id) pairs of the model
EntityPairs == UNION {{<<t, id>> : id \in EntityIds[t]} : t \in get_entity_names}

\* C25: remove_snapshots(entities, T) deletes exactly the rows with
\* block_ptr_number < T of the listed (type, id) pairs: the rows of those
\* pairs at or above T, all rows of unlisted ids, and the block_ptr table are
\* left unchanged.
C25_RemoveSnapshots ==
    /\ [](\A entities \in SUBSET EntityPairs, T \in ToBlocks :
             LET after == remove_snapshots(tables, entities, T)
             IN  \A t \in get_entity_names :
                     after[t] = {r \in tables[t] :
                                    ~(<<t, RowId(r)>> \in entities /\ RowNumber(r) < T)})
    /\ [][store_op'.op = "remove_snapshots" => block_ptr_table' = block_ptr_table]_vars

\* a remove_snapshots has removed a row; another entity row and a block
\* pointer are left
C25_Witness ==
    /\ store_op = StoreOp("remove_snapshots", "Ok", TRUE)
    /\ \E t \in get_entity_names : tables[t] # {}
    /\ block_ptr_table # {}

\* the numbers of blocks load_recent_block_ptrs is asked for: the LIMIT of
\* its query, from 1 to more than the table can hold
NumbersOfBlocks == 1..(MaxBlock + 2)

\* C26: load_recent_block_ptrs(n), n >= 1, returns the min(n, number of
\* stored block pointers) block pointers with the highest block numbers, in
\* ascending block-number order (oldest first, newest last), each as saved by
\* save_block_ptr.
C26_RecentBlockPtrs ==
    /\ \A n \in NumbersOfBlocks :
           LET got == load_recent_block_ptrs(block_ptr_table, n)
               stored == {row_to_block_ptr(r) : r \in block_ptr_table}
           IN  /\ Len(got) = Min(n, Cardinality(stored))
               /\ \A i \in DOMAIN got : got[i] \in stored
               /\ \A i, j \in DOMAIN got : i < j => got[i].number < got[j].number
               /\ \A p \in stored :
                      (\A i \in DOMAIN got : got[i] # p) =>
                          \A i \in DOMAIN got : p.number < got[i].number
    /\ \A block_ptr \in SavedBlockPtrs :
           LET after == save_block_ptr(block_ptr_table, block_ptr)
               got == load_recent_block_ptrs(after, MaxBlock + 2)
           IN  /\ \E i \in DOMAIN got : got[i] = block_ptr
               /\ \A r \in block_ptr_table :
                      r.block_number # block_ptr.number =>
                          \E i \in DOMAIN got : got[i] = row_to_block_ptr(r)

\* a save_block_ptr has written a second block pointer: asked for one,
\* load_recent_block_ptrs returns the newer one alone, asked for more, the
\* older one first
C26_Witness ==
    /\ store_op = StoreOp("save_block_ptr", "Ok", TRUE)
    /\ Cardinality(block_ptr_table) = 2
    /\ Len(load_recent_block_ptrs(block_ptr_table, 1)) = 1
    /\ load_recent_block_ptrs(block_ptr_table, 1)[1].number = 2
    /\ load_recent_block_ptrs(block_ptr_table, 3)[1].number = 1

----------------------------------------------------------------------------
(* Claims about the Inspector's scan of the window *)

\* rules 1 to 5 of the classification: the window is empty, its front is the
\* parent of new, new lies beyond front + 1, or new lies below the back
Rule1To5(W, new) ==
    \/ W = <<>>
    \/ is_parent(Head(W), new)
    \/ new.number > Head(W).number + 1
    \/ new.number < W[Len(W)].number

\* C27: when check_block(new) returns ForkBlock, the new window is new
\* followed by the entries of the old window whose number is < new.number, in
\* their old order; none of the rules 1 to 5 applies, and the first window
\* entry (front to back) that equals new or is parent of new is a parent.
C27_ForkWindow ==
    [][result' = "ForkBlock" =>
          LET W == recent_block_ptrs
              new == new_block_ptr'
          IN  /\ recent_block_ptrs'
                     = <<new>> \o SelectSeq(W, LAMBDA b : b.number < new.number)
              /\ ~Rule1To5(W, new)
              /\ \E i \in DOMAIN W :
                     /\ is_parent(W[i], new)
                     /\ \A j \in 1..i : W[j] # new
                     /\ \A j \in 1..(i - 1) : ~is_parent(W[j], new)]_vars

\* a ForkBlock in a window of the largest depth: the window is the fork
\* block and its parent alone
C27_Witness ==
    /\ result = "ForkBlock"
    /\ reorg_threshold = MaxThreshold
    /\ Len(recent_block_ptrs) = 2
    /\ recent_block_ptrs[1] = new_block_ptr
    /\ is_parent(recent_block_ptrs[2], new_block_ptr)
    /\ new_block_ptr.number > ExpectedStart

\* C28: ForkBlock preempts MaybeReorg. In any window reachable from the empty
\* window, check_block(new) never returns MaybeReorg when some entry of the
\* window is parent of new (number + 1 and hash match).
C28_ForkPreemptsMaybeReorg ==
    [][(\E i \in DOMAIN recent_block_ptrs :
            /\ recent_block_ptrs[i].number + 1 = new_block_ptr'.number
            /\ recent_block_ptrs[i].hash = new_block_ptr'.parent_hash)
       => result' # "MaybeReorg"]_vars

\* a block whose parent stood behind the front of a window of three was
\* classified ForkBlock, and an older entry is left behind the parent
C28_Witness ==
    /\ result = "ForkBlock"
    /\ Len(recent_block_ptrs) = 3
    /\ recent_block_ptrs[2].number + 1 = new_block_ptr.number
    /\ recent_block_ptrs[2].hash = new_block_ptr.parent_hash

\* the results with which check_block refuses a block
Refusals == {"BlockAlreadyProcessed", "UnexpectedBlock", "UnrecognizedBlock", "MaybeReorg"}

\* C29: check_block changes the window only when it returns OkToProceed or
\* ForkBlock. A call that returns BlockAlreadyProcessed, UnexpectedBlock,
\* UnrecognizedBlock or MaybeReorg leaves the window, the sources and
\* reorg_threshold unchanged, so the next expected block number is the same
\* as before.
C29_RefusalsChangeNothing ==
    [][result' \in Refusals =>
          /\ recent_block_ptrs' = recent_block_ptrs
          /\ sources' = sources
          /\ reorg_threshold' = reorg_threshold
          /\ get_expected_block_number(recent_block_ptrs', sources')
                 = get_expected_block_number(recent_block_ptrs, sources)]_vars

\* a block inside the span of a window of two or more, neither a member nor
\* the child of a member, was refused as MaybeReorg
C29_Witness ==
    /\ result = "MaybeReorg"
    /\ Len(recent_block_ptrs) >= 2
    /\ new_block_ptr \notin Range(recent_block_ptrs)
    /\ new_block_ptr.number <= Head(recent_block_ptrs).number
    /\ new_block_ptr.number >= recent_block_ptrs[Len(recent_block_ptrs)].number

----------------------------------------------------------------------------
(* Claims about the order of the steps of migrate *)

\* C30: in migrate(b) the block pointer b is saved only after
\* batch_insert_entities has returned success. batch_insert_entities has
\* returned success (migrate stands before save_block_ptr) only if every chunk
\* is persisted, and whenever migrate writes the block_ptr row of b, every
\* entity of the drained Memory Store has its row at block b.
C30_SaveAfterInsert ==
    /\ [](flush.pc = "save" => \A v \in flush.values : Persisted(v))
    /\ [][block_ptr_table' # block_ptr_table =>
             /\ flush.pc = "save"
             /\ block_ptr_table' = save_block_ptr(block_ptr_table, flush.block_ptr)
             /\ \A v \in flush.values : Persisted(v)']_vars

\* a migrate of more than one chunk has returned Ok: its block pointer is
\* saved and every drained entity is persisted
C30_Witness ==
    /\ store_op = StoreOp("migrate", "Ok", FALSE)
    /\ Cardinality(flush.values) > chunk_size
    /\ \E r \in block_ptr_table : r.block_number = flush.block_ptr.number
    /\ \A v \in flush.values : Persisted(v)

----------------------------------------------------------------------------
(* Store Facade: the requests of the guest *)

\* the requests that work on the Memory Store alone
MemOnlyOps == {"handle_create", "handle_update", "handle_delete", "handle_load_in_block"}

\* the ids of the requests an Update is compared on
UpdateIds == {"a", "u"}

\* C31: Create, Update, Delete and LoadInBlock leave every table of the
\* External Store as it was, and Update(type, id, data) leaves the Memory Store
\* as Create(type, data) does, whatever the id of the request
C31_MemOnly ==
    /\ [](\A entity_type \in get_entity_names :
            \A data \in FacadeEntities[entity_type] \cup MalformedEntities[entity_type] :
                \A entity_id \in UpdateIds :
                    handle_update(mem, entity_type, entity_id, data).mem
                        = handle_create(mem, entity_type, data).mem)
    /\ [][store_op'.op \in MemOnlyOps => UNCHANGED <<tables, block_ptr_table>>]_vars

\* an Update answered while both stores hold entities
C31_Witness ==
    /\ store_op.op = "handle_update"
    /\ store_op.ret = "Ok"
    /\ tables # NoTables
    /\ mem # NoTables

\* what Load(entity_type, entity_id) does in the current state, the Memory
\* Store hiding its soft-deleted entries or not
LoadPost(entity_type, entity_id, hides_deleted) ==
    LET in_mem == mem_load_entity_latest(mem, entity_type, entity_id, hides_deleted)
        in_db == load_entity_latest(tables, entity_type, entity_id)
        r == handle_load(mem, tables, entity_type, entity_id, hides_deleted)
        next == handle_load(r.mem, tables, entity_type, entity_id, hides_deleted)
    IN  /\ in_mem # {} => r.ret = in_mem /\ ~r.queried /\ r.mem = mem
        /\ in_mem = {} /\ in_db # {} =>
              /\ r.ret = in_db
              /\ MemEntry(r.mem, entity_type, entity_id) = in_db
              /\ next.ret = in_db /\ ~next.queried
              /\ handle_load_in_block(r.mem, entity_type, entity_id, hides_deleted) = in_db
        /\ in_mem = {} /\ in_db = {} => r.ret = {} /\ r.mem = mem

\* C32: Load answers from the Memory Store when it has the entity, without a
\* query of the External Store; otherwise it answers with load_entity_latest of
\* the External Store and keeps a found entity in the Memory Store, so that the
\* next Load or LoadInBlock returns the same entity; when both miss it returns
\* none and leaves the Memory Store as it was
C32_Load ==
    \A entity_type \in get_entity_names, hides_deleted \in BOOLEAN :
        \A entity_id \in FacadeIds(entity_type) :
            LoadPost(entity_type, entity_id, hides_deleted)

\* a Load was answered from the External Store and the entity is now in the
\* Memory Store
C32_Witness ==
    /\ store_op.op = "handle_load"
    /\ store_op.ret = "Ok"
    /\ \E e \in mem["Token"] :
          /\ e["is_deleted"] = BoolValue(FALSE)
          /\ load_entity_latest(tables, "Token", "a") = {e}

\* Delete(entity_type, entity_id) and then Load(entity_type, entity_id) in the
\* current state: the Load returns none, the soft-delete marker stays in the
\* Memory Store, and a migrate that follows writes the row of the id with
\* is_deleted = true
DeleteThenLoad(entity_type, entity_id, hides_deleted) ==
    LET deleted == mem_soft_delete(mem, entity_type, entity_id)
        r == handle_load(deleted, tables, entity_type, entity_id, hides_deleted)
    IN  /\ r.ret = {}
        /\ MemEntry(r.mem, entity_type, entity_id) = MemEntry(deleted, entity_type, entity_id)
        /\ \A block_ptr \in EntityBlockPtrs :
               LET migrated == migrate_from_mem_to_db(r.mem, tables, block_ptr_table,
                                                      block_ptr, TRUE, TRUE)
               IN  \A row \in RowsOf(migrated.tables[entity_type], entity_id) :
                       RowNumber(row) = block_ptr.number
                           => row["is_deleted"] = CqlBoolean(TRUE)

\* C36: within one block, after Delete(type, id) a following Load(type, id)
\* returns none and does not replace the soft-delete marker of the Memory Store
\* with the older version of the External Store, so that the next migrate
\* still persists is_deleted = true; stated for a Memory Store whose
\* load_entity_latest hides soft-deleted entries or for one that returns them
C36_DeleteThenLoad ==
    \A entity_type \in get_entity_names : \A entity_id \in FacadeIds(entity_type) :
        \E hides_deleted \in BOOLEAN :
            DeleteThenLoad(entity_type, entity_id, hides_deleted)

\* the rows of an id at the block of a pointer
RowsAt(table, id, block_ptr) ==
    {row \in RowsOf(table, id) : RowNumber(row) = block_ptr.number}

\* Load(entity_type, entity_id) and then migrate(block_ptr) in the current
\* state: the migrate leaves the rows of the id at the block as they were
LoadThenMigrate(entity_type, entity_id, block_ptr, hides_deleted) ==
    LET r == handle_load(mem, tables, entity_type, entity_id, hides_deleted)
        migrated == migrate_from_mem_to_db(r.mem, tables, block_ptr_table,
                                           block_ptr, TRUE, TRUE)
    IN  RowsAt(migrated.tables[entity_type], entity_id, block_ptr)
            = RowsAt(tables[entity_type], entity_id, block_ptr)

\* C38: migrate(b) writes a row at block b only for the entities the guest
\* created, updated or deleted since the last flush or clear: an entity that
\* has no entry in the Memory Store and is only read through Load gets no new
\* row at b
C38_ReadWritesNoRow ==
    \A entity_type \in get_entity_names, hides_deleted \in BOOLEAN :
        \A entity_id \in FacadeIds(entity_type), block_ptr \in EntityBlockPtrs :
            MemEntry(mem, entity_type, entity_id) = {}
                => LoadThenMigrate(entity_type, entity_id, block_ptr, hides_deleted)

\* the fields LoadRelated is asked to follow
RelatedFields == {"users", "id"}

\* LoadRelated(entity_type, entity_id, field_name) in the current state, when
\* it returns: nothing for a field that is no relation; otherwise, for every
\* referenced id, the entities of that id in the answer are the one entity Load
\* returns for it (none when Load returns none), and the Memory Store holds
\* for the id what it holds after that Load
LoadRelatedPost(entity_type, entity_id, field_name, hides_deleted) ==
    LET r == handle_load_related(mem, tables, entity_type, entity_id, field_name,
                                 hides_deleted)
        relation == get_relation_field(entity_type, field_name)
        relation_table == (CHOOSE x \in relation : TRUE)[1]
        source == CHOOSE e \in MemEntry(mem, entity_type, entity_id) : TRUE
        ids == related_ids(source[field_name])
    IN  r.ret = "LoadRelated" =>
            IF relation = {} THEN r.entities = <<>> /\ r.mem = mem
            ELSE \A i \in DOMAIN ids :
                    LET loaded == handle_load(mem, tables, relation_table, ids[i],
                                              hides_deleted)
                        answered == SelectSeq(r.entities,
                                              LAMBDA e : e["id"] = StringValue(ids[i]))
                    IN  /\ Range(answered) = loaded.ret
                        /\ Len(answered) = Cardinality(loaded.ret)
                        /\ MemEntry(r.mem, relation_table, ids[i])
                               = MemEntry(loaded.mem, relation_table, ids[i])

\* C33: LoadRelated returns, for each referenced id, the entity of the Memory
\* Store if it has one and otherwise the entity of the one bulk fetch: one
\* entity per referenced id, equal to what Load returns for that id, the
\* fetched entities kept in the Memory Store; and the empty list when the field
\* is not a relation; stated for a Memory Store whose load_entity_latest hides
\* soft-deleted entries or for one that returns them
C33_LoadRelated ==
    \A entity_type \in get_entity_names : \A entity_id \in FacadeIds(entity_type) :
        \A field_name \in RelatedFields :
            \E hides_deleted \in BOOLEAN :
                LoadRelatedPost(entity_type, entity_id, field_name, hides_deleted)

----------------------------------------------------------------------------
(* External Store: soft delete and pruning *)

\* the row soft_delete_entity is to write for a latest row: the same columns
\* at the block of the pointer, with is_deleted = true
DeletedCopy(row, block_ptr) ==
    [row EXCEPT !["is_deleted"] = CqlBoolean(TRUE),
                !["block_ptr_number"] = CqlBigInt(block_ptr.number)]

\* what soft_delete_entity(block_ptr, t, id) does in the current state
SoftDeleteFrame(block_ptr, t, id) ==
    LET r == soft_delete_entity(tables, block_ptr, t, id)
        top == TopRows(tables[t], id)
        live == {row \in top : row["is_deleted"] = CqlBoolean(FALSE)}
    IN  /\ ~r.panic
        /\ live = {} => r.tables = tables
        /\ \A row \in live :
               /\ RowsAt(r.tables[t], id, block_ptr) = {DeletedCopy(row, block_ptr)}
               /\ r.tables[t] \ RowsAt(r.tables[t], id, block_ptr)
                      = tables[t] \ RowsAt(tables[t], id, block_ptr)
               /\ \A other \in get_entity_names \ {t} : r.tables[other] = tables[other]

\* C34: soft_delete_entity(b, type, id) writes exactly one row, at
\* (id, b.number), equal to the latest row of id with is_deleted = true when
\* that row is not deleted, and leaves every other row as it was; when id has
\* no row or its latest row is deleted the store is unchanged and the call
\* succeeds
C34_SoftDeleteFrame ==
    \A block_ptr \in EntityBlockPtrs, t \in get_entity_names :
        \A id \in EntityIds[t] : SoftDeleteFrame(block_ptr, t, id)

\* a soft_delete_entity has written its row: an id has a deleted row that is
\* the copy of an older live row of it
C34_Witness ==
    /\ store_op = StoreOp("soft_delete_entity", "Ok", TRUE)
    /\ \E t \in get_entity_names : \E id \in EntityIds[t] :
           \E deleted \in TopRows(tables[t], id), older \in RowsOf(tables[t], id) :
               /\ RowNumber(older) < RowNumber(deleted)
               /\ older["is_deleted"] = CqlBoolean(FALSE)
               /\ \E block_ptr \in EntityBlockPtrs : deleted = DeletedCopy(older, block_ptr)
               /\ \E column \in DOMAIN older \ {"id", "is_deleted", "block_ptr_number"} :
                      older[column] \notin {CqlNone, CqlList(<<>>)}

\* C37: pruning loses no live entity: for every (type, id),
\* load_entity_latest returns after clean_data_history(T), and after
\* remove_snapshots(entities, T), what it returned before, also when the newest
\* row of the id has a block_ptr_number below T
C37_PruningKeepsLatest ==
    \A T \in ToBlocks, t \in get_entity_names :
        \A id \in EntityIds[t] :
            LET before == load_entity_latest(tables, t, id)
                cleaned == clean_data_history(tables, block_ptr_table, T)
            IN  /\ load_entity_latest(cleaned.tables, t, id) = before
                /\ \A entities \in SUBSET EntityPairs :
                       load_entity_latest(remove_snapshots(tables, entities, T), t, id)
                           = before

----------------------------------------------------------------------------
(* Inspector: the shape of the window *)

\* C35: in every window reachable from the empty window, through ForkBlock
\* too, the block numbers decrease by exactly 1 from the front to the back, no
\* two entries have the same number, and every entry is the child of the entry
\* behind it
C35_WindowChain ==
    /\ \A i \in 1..(Len(recent_block_ptrs) - 1) :
           /\ recent_block_ptrs[i].number = recent_block_ptrs[i + 1].number + 1
           /\ is_parent(recent_block_ptrs[i + 1], recent_block_ptrs[i])
    /\ \A i, j \in DOMAIN recent_block_ptrs :
           recent_block_ptrs[i].number = recent_block_ptrs[j].number => i = j

\* a fork block was placed on an entry below the front and the window still
\* has entries behind it
C35_Witness ==
    /\ result = "ForkBlock"
    /\ Len(recent_block_ptrs) >= 2
    /\ new_block_ptr = Head(recent_block_ptrs)

\* new replaces the k-th most recent block of the window W: it has the number
\* of that entry and another hash, and its parent_hash is the hash of the entry
\* just below when the window has one
Replaces(W, k, new) ==
    /\ new.number = Head(W).number - k + 1
    /\ new.hash # W[k].hash
    /\ k < Len(W) => new.parent_hash = W[k + 1].hash

\* C39: with a full window (reorg_threshold entries), a block that replaces
\* the k-th most recent block is classified ForkBlock for
\* 1 <= k <= reorg_threshold - 1, and MaybeReorg for k = reorg_threshold,
\* whose parent has left the window
C39_ReplacedBlock ==
    [][\A k \in DOMAIN recent_block_ptrs :
           (/\ Len(recent_block_ptrs) = reorg_threshold
            /\ Replaces(recent_block_ptrs, k, new_block_ptr'))
           => result' = IF k < reorg_threshold THEN "ForkBlock" ELSE "MaybeReorg"]_vars

\* a block that replaces the back of a full window of three was classified
\* MaybeReorg
C39_Witness ==
    /\ result = "MaybeReorg"
    /\ reorg_threshold = 3
    /\ Len(recent_block_ptrs) = reorg_threshold
    /\ Replaces(recent_block_ptrs, reorg_threshold, new_block_ptr)

----------------------------------------------------------------------------
(* Agent: progress *)

====
